---- MODULE Spec2Model ----
(***************************************************************************)
(* OmniGuard observability core: session tracker, hybrid embedding drift   *)
(* detector, anomaly scorers and the orchestration facade, as state        *)
(* machines translated from the Python sources under src/app.              *)
(*                                                                         *)
(* Python floats are modelled by exact integer / rational arithmetic:      *)
(* embedding components and series values are integers, and comparisons    *)
(* of quotients and square roots are cross-multiplied.                     *)
(***************************************************************************)
EXTENDS Integers, Sequences, FiniteSets, TLC

VARIABLES
    sessions,        \* SessionTracker._sessions: insertion-ordered dict, a sequence of [key, value] with value an object id
    heap,            \* the SessionState objects, indexed by object id (identity)
    clock,           \* the wall clock read by _now_utc
    clock_seen,      \* whether some call has read the current clock value
    snapshot,        \* the list a caller obtained from get_all_sessions (object ids)
    ret,             \* what the last tracker call returned (object id, 0 for None)
    nops,            \* number of tracker calls made so far
    turn_log,        \* per session id, the (input_tokens, output_tokens) the callers passed to record_turn, in call order
    thr,             \* request threads calling the tracker concurrently: per thread its call, position and locals
    detector,        \* HybridEmbeddingDriftDetector: _window_size, _drift_threshold, _vertex_history, _minilm_history
    drift_result,    \* outcome of the last update_and_score call: the DriftResult, or the exception raised
    drift_calls,     \* every update_and_score call made so far: its two embeddings and whether it returned
    dthr,            \* request threads inside update_and_score concurrently: per thread its arguments, position and locals
    chat,            \* the handle_chat call in progress: request, response, position, outcome
    chat_env,        \* the facade's module state: which sink adapters were constructed, requests handled
    series,          \* the values handed to the anomaly scorers
    z_result,        \* what z_score_anomalies returned for series, once called
    mad_result,      \* what mad_anomalies returned for series, once called
    last_call,       \* the last tracker call of a logged caller: operation, arguments, and what it returned
    shift,           \* SemanticShiftEngine: _window_size, _history, _distances
    shift_log,       \* per key, every update call made so far: embedding, distance, returned snapshot
    shift_ret,       \* what the last update or get_snapshot call returned
    causal_args,     \* the arguments of infer_causal_graph and the engine's l2 penalty
    causal_graph,    \* the CausalGraph infer_causal_graph returned, once called
    redact_input,    \* the payload handed to redact_payload
    redacted,        \* the results of redact_payload applied once, twice, ... to it
    config,          \* the last construction of a detector or create_case call: arguments and outcome
    chat_entry       \* what the facade's entry point found when the current request arrived, and which entry point it is

trackerVars == <<sessions, heap, clock, clock_seen, snapshot, ret, nops, turn_log, thr>>
driftVars == <<detector, drift_result, drift_calls, dthr>>
chatVars == <<chat, chat_env>>
anomalyVars == <<series, z_result, mad_result>>
callVars == <<last_call>>
shiftVars == <<shift, shift_log, shift_ret>>
causalVars == <<causal_args, causal_graph>>
redactVars == <<redact_input, redacted>>
configVars == <<config>>
entryVars == <<chat_entry>>
extVars == <<callVars, shiftVars, causalVars, redactVars, configVars, entryVars>>
vars == <<trackerVars, driftVars, chatVars, anomalyVars, extVars>>

---------------------------------------------------------------------------
(* Bounds of the model *)

MaxOps == 3
NumThreads == 2
MaxCalls == 3
MaxWindow == 2
MaxRequests == 2
MaxSeriesLen == 11
MaxUpdates == 3
MaxShiftWindow == 2
MaxParents == 2
MaxPieces == 3
MaxApplications == 2

---------------------------------------------------------------------------
(* Inputs *)

SessionIds == {"abc", "xyz"}
MetaKeys == {"model", "environment"}
NoValue == "<unset>"
EmptyMeta == [k \in MetaKeys |-> NoValue]
MetaChoices ==
    { [model |-> "gemini", environment |-> NoValue],
      [model |-> "palm", environment |-> "dev"] }
\* (input_tokens, output_tokens, metadata) of a turn: positive, zero and negative counts
TurnInputs ==
    { [input_tokens |-> 10, output_tokens |-> 5, metadata |-> [model |-> "gemini", environment |-> NoValue]],
      [input_tokens |-> 0, output_tokens |-> -7, metadata |-> EmptyMeta],
      [input_tokens |-> -4, output_tokens |-> 3, metadata |-> [model |-> "palm", environment |-> "dev"]] }
Reasons == {"normal"}

---------------------------------------------------------------------------
(* Python dict and helpers *)

dict_has(d, k) == \E i \in 1..Len(d) : d[i].key = k

\* dict.get(k): the value, or None (0)
dict_get(d, k) ==
    IF dict_has(d, k) THEN d[CHOOSE i \in 1..Len(d) : d[i].key = k].value ELSE 0

\* d[k] = v: overwrite in place, or insert at the end
dict_set(d, k, v) ==
    IF dict_has(d, k)
    THEN [i \in 1..Len(d) |-> IF d[i].key = k THEN [key |-> k, value |-> v] ELSE d[i]]
    ELSE Append(d, [key |-> k, value |-> v])

\* list(d.values())
dict_values(d) == [i \in 1..Len(d) |-> d[i].value]

\* metadata.update(new): given keys overwrite, other keys are kept
metadata_update(old, new) ==
    [k \in MetaKeys |-> IF new[k] # NoValue THEN new[k] ELSE old[k]]

\* max(0, int(tokens))
clamp_tokens_raw(tokens) == tokens
clamp_tokens(tokens) == IF tokens > 0 THEN tokens ELSE 0

---------------------------------------------------------------------------
(* SessionState, SessionEvent *)

SessionEvent(timestamp, event_type, payload) ==
    [timestamp |-> timestamp, event_type |-> event_type, payload |-> payload]

SessionState(session_id, now, metadata) ==
    [ session_id |-> session_id,
      created_at |-> now,
      last_activity |-> now,
      total_input_tokens |-> 0,
      total_output_tokens |-> 0,
      turn_count |-> 0,
      metadata |-> metadata,
      events |-> <<>> ]

\* start_session that builds and stores a new SessionState whether or not the
\* id is registered
start_session_replace(reg, hp, session_id, metadata, now) ==
    LET id == Len(hp) + 1
        ev == SessionEvent(now, "session_started", [metadata |-> metadata])
        obj == [SessionState(session_id, now, metadata) EXCEPT !.events = Append(@, ev)]
    IN  [sessions |-> dict_set(reg, session_id, id), heap |-> Append(hp, obj), ret |-> id]

\* start_session: the whole call, on registry reg and object heap hp
start_session(reg, hp, session_id, metadata, now) ==
    LET state == dict_get(reg, session_id)
        ev == SessionEvent(now, "session_started", [metadata |-> metadata])
    IN  IF state = 0
        THEN LET id == Len(hp) + 1
                 obj == [SessionState(session_id, now, metadata) EXCEPT !.events = Append(@, ev)]
             IN  [sessions |-> dict_set(reg, session_id, id), heap |-> Append(hp, obj), ret |-> id]
        ELSE [ sessions |-> reg,
               heap |-> [hp EXCEPT ![state] =
                            [@ EXCEPT !.last_activity = now,
                                      !.metadata = metadata_update(@, metadata),
                                      !.events = Append(@, ev)]],
               ret |-> state ]

\* record_turn whose llm_turn event carries the clamped token counts
apply_turn_clamped_payload(st, input_tokens, output_tokens, metadata, now) ==
    [st EXCEPT
        !.total_input_tokens = @ + clamp_tokens(input_tokens),
        !.total_output_tokens = @ + clamp_tokens(output_tokens),
        !.turn_count = @ + 1,
        !.last_activity = now,
        !.metadata = metadata_update(@, metadata),
        !.events = Append(@, SessionEvent(now, "llm_turn",
                        [input_tokens |-> clamp_tokens(input_tokens),
                         output_tokens |-> clamp_tokens(output_tokens),
                         metadata |-> metadata]))]

\* record_turn lines 93-109 on one SessionState object
apply_turn(st, input_tokens, output_tokens, metadata, now) ==
    [st EXCEPT
        !.total_input_tokens = @ + clamp_tokens(input_tokens),
        !.total_output_tokens = @ + clamp_tokens(output_tokens),
        !.turn_count = @ + 1,
        !.last_activity = now,
        !.metadata = metadata_update(@, metadata),
        !.events = Append(@, SessionEvent(now, "llm_turn",
                        [input_tokens |-> input_tokens,
                         output_tokens |-> output_tokens,
                         metadata |-> metadata]))]

\* record_turn that builds the state of an absent session itself, without
\* calling start_session
record_turn_without_start(reg, hp, session_id, input_tokens, output_tokens, metadata, now0, now) ==
    LET started == IF dict_get(reg, session_id) = 0
                   THEN [ sessions |-> dict_set(reg, session_id, Len(hp) + 1),
                          heap |-> Append(hp, SessionState(session_id, now0, metadata)),
                          ret |-> Len(hp) + 1 ]
                   ELSE [sessions |-> reg, heap |-> hp, ret |-> dict_get(reg, session_id)]
        state == started.ret
    IN  [ sessions |-> started.sessions,
          heap |-> [started.heap EXCEPT ![state] =
                        apply_turn(@, input_tokens, output_tokens, metadata, now)],
          ret |-> state ]

\* record_turn that ignores a turn on a session that was ended
record_turn_closed(reg, hp, session_id, input_tokens, output_tokens, metadata, now0, now) ==
    LET started == IF dict_get(reg, session_id) = 0
                   THEN start_session(reg, hp, session_id, metadata, now0)
                   ELSE [sessions |-> reg, heap |-> hp, ret |-> dict_get(reg, session_id)]
        state == started.ret
        events == started.heap[state].events
    IN  IF events[Len(events)].event_type = "session_ended"
        THEN started
        ELSE [ sessions |-> started.sessions,
               heap |-> [started.heap EXCEPT ![state] =
                            apply_turn(@, input_tokens, output_tokens, metadata, now)],
               ret |-> state ]

\* record_turn: the whole call; now0 is the clock read of the implicit
\* start_session, now the later read of line 93
record_turn(reg, hp, session_id, input_tokens, output_tokens, metadata, now0, now) ==
    LET started == IF dict_get(reg, session_id) = 0
                   THEN start_session(reg, hp, session_id, metadata, now0)
                   ELSE [sessions |-> reg, heap |-> hp, ret |-> dict_get(reg, session_id)]
        state == started.ret
    IN  [ sessions |-> started.sessions,
          heap |-> [started.heap EXCEPT ![state] =
                        apply_turn(@, input_tokens, output_tokens, metadata, now)],
          ret |-> state ]

\* del d[k]
dict_remove(d, k) == SelectSeq(d, LAMBDA e : e.key # k)

\* end_session that also drops the session from the registry
end_session_forget(reg, hp, session_id, reason, now) ==
    LET state == dict_get(reg, session_id)
    IN  IF state = 0
        THEN [sessions |-> reg, heap |-> hp, ret |-> 0]
        ELSE [ sessions |-> dict_remove(reg, session_id),
               heap |-> [hp EXCEPT ![state] =
                            [@ EXCEPT !.last_activity = now,
                                      !.events = Append(@, SessionEvent(now, "session_ended",
                                                            [reason |-> reason]))]],
               ret |-> state ]

\* end_session that counts as a turn
end_session_counting_turn(reg, hp, session_id, reason, now) ==
    LET state == dict_get(reg, session_id)
    IN  IF state = 0
        THEN [sessions |-> reg, heap |-> hp, ret |-> 0]
        ELSE [ sessions |-> reg,
               heap |-> [hp EXCEPT ![state] =
                            [@ EXCEPT !.last_activity = now,
                                      !.turn_count = @ + 1,
                                      !.events = Append(@, SessionEvent(now, "session_ended",
                                                            [reason |-> reason]))]],
               ret |-> state ]

\* end_session that starts the session when the id is not registered
end_session_or_start(reg, hp, session_id, reason, now) ==
    LET state == dict_get(reg, session_id)
    IN  IF state = 0
        THEN start_session(reg, hp, session_id, EmptyMeta, now)
        ELSE [ sessions |-> reg,
               heap |-> [hp EXCEPT ![state] =
                            [@ EXCEPT !.last_activity = now,
                                      !.events = Append(@, SessionEvent(now, "session_ended",
                                                            [reason |-> reason]))]],
               ret |-> state ]

\* end_session: the whole call
end_session(reg, hp, session_id, reason, now) ==
    LET state == dict_get(reg, session_id)
    IN  IF state = 0
        THEN [sessions |-> reg, heap |-> hp, ret |-> 0]
        ELSE [ sessions |-> reg,
               heap |-> [hp EXCEPT ![state] =
                            [@ EXCEPT !.last_activity = now,
                                      !.events = Append(@, SessionEvent(now, "session_ended",
                                                            [reason |-> reason]))]],
               ret |-> state ]

\* get_all_sessions: a new list of the registered objects themselves
get_all_sessions(reg) == dict_values(reg)

\* get_session_state: the registered object, or None (0)
get_session_state(reg, session_id) == dict_get(reg, session_id)

\* SessionState.to_observability_payload: the scalar fields and a copy of the metadata
to_observability_payload(st) ==
    [ session_id |-> st.session_id,
      created_at |-> st.created_at,
      last_activity |-> st.last_activity,
      total_input_tokens |-> st.total_input_tokens,
      total_output_tokens |-> st.total_output_tokens,
      turn_count |-> st.turn_count,
      metadata |-> st.metadata ]

\* export_for_datadog: the payload of the registered state, or None
export_for_datadog(reg, hp, session_id) ==
    LET state == dict_get(reg, session_id)
    IN  IF state = 0 THEN [found |-> FALSE, payload |-> <<>>]
        ELSE [found |-> TRUE, payload |-> to_observability_payload(hp[state])]

---------------------------------------------------------------------------
(* The tracker used from one thread: each call is one step *)

\* the anomaly scorers when a specification does not use them
AnomalyIdle ==
    /\ series = <<>>
    /\ z_result = [called |-> FALSE, flags |-> <<>>]
    /\ mad_result = [called |-> FALSE, flags |-> <<>>]

\* no logged caller
NoCall == [op |-> "none"]
CallIdle == last_call = NoCall

\* the SemanticShiftEngine when a specification does not use it
ShiftKeys == {"p", "q"}
NoDeque == [present |-> FALSE, items |-> <<>>]
NoSnapshot == [found |-> FALSE]
ShiftIdle ==
    /\ shift = [window_size |-> 1, history |-> [k \in ShiftKeys |-> NoDeque],
                distances |-> [k \in ShiftKeys |-> NoDeque]]
    /\ shift_log = [k \in ShiftKeys |-> <<>>]
    /\ shift_ret = [op |-> "none", key |-> "", snapshot |-> NoSnapshot]

\* the causal engine when a specification does not use it
NoGraph == [called |-> FALSE, edges |-> <<>>]
CausalIdle ==
    /\ causal_args = [given |-> FALSE]
    /\ causal_graph = NoGraph

\* the redaction filter when a specification does not use it
RedactIdle ==
    /\ redact_input = [kind |-> "none"]
    /\ redacted = <<>>

\* no detector constructed and no case created by a caller of its own
NoConfig == [op |-> "none"]
ConfigIdle == config = NoConfig

\* no request has entered the facade
NoEntry == [kind |-> "none"]
EntryIdle == chat_entry = NoEntry

\* the other components, when a specification does not use them
ExtIdle == CallIdle /\ ShiftIdle /\ CausalIdle /\ RedactIdle /\ ConfigIdle /\ EntryIdle

\* the facade when a specification does not use it
ChatIdle ==
    /\ chat = [pc |-> "idle"]
    /\ chat_env = [event_emitter |-> FALSE, case_generator |-> FALSE, requests |-> 0]

\* the drift detector when a specification does not use it
DriftIdle ==
    /\ detector = [window_size |-> 1, drift_threshold |-> 0,
                   vertex_history |-> <<>>, minilm_history |-> <<>>]
    /\ drift_result = [kind |-> "none"]
    /\ drift_calls = <<>>
    /\ dthr = <<>>

InitTracker ==
    /\ AnomalyIdle
    /\ ExtIdle
    /\ DriftIdle
    /\ ChatIdle
    /\ sessions = <<>>
    /\ heap = <<>>
    /\ clock = 0
    /\ clock_seen = FALSE
    /\ snapshot = <<>>
    /\ ret = 0
    /\ nops = 0
    /\ turn_log = [sid \in SessionIds |-> <<>>]
    /\ thr = <<>>

\* time passes; a clock value nobody read is not distinguished from the next one
Tick ==
    /\ clock_seen
    /\ clock' = clock + 1
    /\ clock_seen' = FALSE
    /\ UNCHANGED <<sessions, heap, snapshot, ret, nops, turn_log, thr, driftVars, chatVars, anomalyVars, extVars>>

StartSession ==
    /\ nops < MaxOps
    /\ \E sid \in SessionIds, md \in MetaChoices :
         LET r == start_session(sessions, heap, sid, md, clock)
         IN  /\ sessions' = r.sessions
             /\ heap' = r.heap
             /\ ret' = r.ret
    /\ nops' = nops + 1
    /\ clock_seen' = TRUE
    /\ UNCHANGED <<clock, snapshot, turn_log, thr, driftVars, chatVars, anomalyVars, extVars>>

\* when the session is absent the clock is read twice (lines 56 and 93) and
\* may advance in between
RecordTurn ==
    /\ nops < MaxOps
    /\ \E sid \in SessionIds, t \in TurnInputs :
       \E now \in (IF dict_has(sessions, sid) THEN {clock} ELSE {clock, clock + 1}) :
         LET r == record_turn(sessions, heap, sid, t.input_tokens, t.output_tokens,
                              t.metadata, clock, now)
         IN  /\ sessions' = r.sessions
             /\ heap' = r.heap
             /\ ret' = r.ret
             /\ clock' = now
             /\ turn_log' = [turn_log EXCEPT ![sid] = Append(@, <<t.input_tokens, t.output_tokens>>)]
    /\ nops' = nops + 1
    /\ clock_seen' = TRUE
    /\ UNCHANGED <<snapshot, thr, driftVars, chatVars, anomalyVars, extVars>>

EndSession ==
    /\ nops < MaxOps
    /\ \E sid \in SessionIds, reason \in Reasons :
         LET r == end_session(sessions, heap, sid, reason, clock)
         IN  /\ sessions' = r.sessions
             /\ heap' = r.heap
             /\ ret' = r.ret
             /\ clock_seen' = (clock_seen \/ r.ret # 0)
    /\ nops' = nops + 1
    /\ UNCHANGED <<clock, snapshot, turn_log, thr, driftVars, chatVars, anomalyVars, extVars>>

GetAllSessions ==
    /\ snapshot' = get_all_sessions(sessions)
    /\ UNCHANGED <<sessions, heap, clock, clock_seen, ret, nops, turn_log, thr, driftVars, chatVars, anomalyVars, extVars>>

NextTracker ==
    \/ Tick
    \/ StartSession
    \/ RecordTurn
    \/ EndSession
    \/ GetAllSessions

SpecTracker == InitTracker /\ [][NextTracker]_vars

---------------------------------------------------------------------------
(* Properties of the tracker used from one thread *)

RECURSIVE SumMax0(_, _)
\* sum over the log of max(0, component c)
SumMax0(log, c) ==
    IF log = <<>> THEN 0
    ELSE (IF Head(log)[c] > 0 THEN Head(log)[c] ELSE 0) + SumMax0(Tail(log), c)

Registered(sid) == dict_has(sessions, sid)
StateOf(sid) == heap[dict_get(sessions, sid)]

C1_Totals ==
    \A sid \in SessionIds :
        Registered(sid) =>
            /\ StateOf(sid).turn_count = Len(turn_log[sid])
            /\ StateOf(sid).total_input_tokens = SumMax0(turn_log[sid], 1)
            /\ StateOf(sid).total_output_tokens = SumMax0(turn_log[sid], 2)

C1_Monotone ==
    \A id \in 1..Len(heap) :
        /\ heap'[id].turn_count >= heap[id].turn_count
        /\ heap'[id].total_input_tokens >= heap[id].total_input_tokens
        /\ heap'[id].total_output_tokens >= heap[id].total_output_tokens

\* C1: after n sequential record_turn calls (i_k, o_k) on a fresh session,
\* turn_count = n, total_input_tokens = sum of max(0, i_k), total_output_tokens
\* = sum of max(0, o_k), and no step ever decreases a counter.
C1_RecordTurnTotals == [](C1_Totals) /\ [][C1_Monotone]_vars

\* a session with three recorded turns, negative counts among them
C1_Witness ==
    \E sid \in SessionIds :
        /\ Registered(sid)
        /\ Len(turn_log[sid]) = MaxOps
        /\ \E k \in 1..Len(turn_log[sid]) : turn_log[sid][k][1] < 0
        /\ \E k \in 1..Len(turn_log[sid]) : turn_log[sid][k][2] < 0
        /\ StateOf(sid).total_input_tokens > 0

ScalarFields(st) ==
    <<st.turn_count, st.total_input_tokens, st.total_output_tokens, st.last_activity>>

\* C7: the SessionState objects a caller got from get_all_sessions keep their
\* scalar fields whatever calls follow (a snapshot, not a live view).
C7_SnapshotIsolated ==
    [][ snapshot' = snapshot =>
            \A i \in 1..Len(snapshot) :
                ScalarFields(heap'[snapshot[i]]) = ScalarFields(heap[snapshot[i]]) ]_vars

---------------------------------------------------------------------------
(* The tracker called from concurrent request threads.  SessionTracker takes
   no lock, so a call is a sequence of steps between which other threads
   run: each dict access, each attribute read and each attribute write is
   one step, and "x += v" is a read followed by a write. *)

Threads == 1..NumThreads
ConcSid == "abc"

ThreadCalls ==
    { [op |-> "record_turn", session_id |-> ConcSid, input_tokens |-> t.input_tokens,
       output_tokens |-> t.output_tokens, metadata |-> t.metadata] : t \in TurnInputs }
    \cup
    { [op |-> "start_session", session_id |-> ConcSid, input_tokens |-> 0,
       output_tokens |-> 0, metadata |-> md] : md \in MetaChoices }

NewThread(call) ==
    [ call |-> call,
      pc |-> IF call.op = "record_turn" THEN "rt_get" ELSE "ss_now",
      state |-> 0,      \* local "state": an object id, 0 for None
      now |-> 0,        \* local "now"
      tmp |-> 0,        \* the counter value read by "+="
      ret |-> 0 ]       \* the returned object id

\* the registry before the threads start: empty, or holding ConcSid, started earlier
InitConcurrent ==
    /\ AnomalyIdle
    /\ ExtIdle
    /\ DriftIdle
    /\ ChatIdle
    /\ \E existing \in BOOLEAN :
         LET r == IF existing
                  THEN start_session(<<>>, <<>>, ConcSid, EmptyMeta, 0)
                  ELSE [sessions |-> <<>>, heap |-> <<>>, ret |-> 0]
         IN  /\ sessions = r.sessions
             /\ heap = r.heap
             /\ clock_seen = existing
             /\ ret = r.ret
             /\ nops = IF existing THEN 1 ELSE 0
    /\ clock = 0
    /\ snapshot = <<>>
    /\ turn_log = [sid \in SessionIds |-> <<>>]
    /\ thr \in [Threads -> {NewThread(c) : c \in ThreadCalls}]

TrackerFrame == UNCHANGED <<snapshot, ret, nops, turn_log, driftVars, chatVars, anomalyVars, extVars>>

\* record_turn line 90-92: state = self._sessions.get(session_id)
rt_get(t) ==
    /\ thr[t].pc = "rt_get"
    /\ LET state == dict_get(sessions, thr[t].call.session_id)
       IN  thr' = [thr EXCEPT ![t].state = state,
                              ![t].pc = IF state = 0 THEN "ss_now" ELSE "rt_now"]
    /\ UNCHANGED <<sessions, heap, clock, clock_seen>>
    /\ TrackerFrame

\* start_session line 56: now = self._now_utc()
ss_now(t) ==
    /\ thr[t].pc = "ss_now"
    /\ thr' = [thr EXCEPT ![t].now = clock, ![t].pc = "ss_get"]
    /\ clock_seen' = TRUE
    /\ UNCHANGED <<sessions, heap, clock>>
    /\ TrackerFrame

\* start_session line 59-60: state = self._sessions.get(session_id)
ss_get(t) ==
    /\ thr[t].pc = "ss_get"
    /\ LET state == dict_get(sessions, thr[t].call.session_id)
       IN  thr' = [thr EXCEPT ![t].state = state,
                              ![t].pc = IF state = 0 THEN "ss_new" ELSE "ss_touch"]
    /\ UNCHANGED <<sessions, heap, clock, clock_seen>>
    /\ TrackerFrame

\* start_session line 61-67: a new SessionState, stored under session_id
ss_new(t) ==
    /\ thr[t].pc = "ss_new"
    /\ LET id == Len(heap) + 1
       IN  /\ heap' = Append(heap, SessionState(thr[t].call.session_id, thr[t].now,
                                                thr[t].call.metadata))
           /\ sessions' = dict_set(sessions, thr[t].call.session_id, id)
           /\ thr' = [thr EXCEPT ![t].state = id, ![t].pc = "ss_append"]
    /\ UNCHANGED <<clock, clock_seen>>
    /\ TrackerFrame

\* start_session line 69: state.last_activity = now
ss_touch(t) ==
    /\ thr[t].pc = "ss_touch"
    /\ heap' = [heap EXCEPT ![thr[t].state].last_activity = thr[t].now]
    /\ thr' = [thr EXCEPT ![t].pc = "ss_merge"]
    /\ UNCHANGED <<sessions, clock, clock_seen>>
    /\ TrackerFrame

\* start_session line 70: state.metadata.update(metadata)
ss_merge(t) ==
    /\ thr[t].pc = "ss_merge"
    /\ heap' = [heap EXCEPT ![thr[t].state].metadata = metadata_update(@, thr[t].call.metadata)]
    /\ thr' = [thr EXCEPT ![t].pc = "ss_append"]
    /\ UNCHANGED <<sessions, clock, clock_seen>>
    /\ TrackerFrame

\* start_session line 71-78: append the session_started event and return state
ss_append(t) ==
    /\ thr[t].pc = "ss_append"
    /\ heap' = [heap EXCEPT ![thr[t].state].events =
                    Append(@, SessionEvent(thr[t].now, "session_started",
                                           [metadata |-> thr[t].call.metadata]))]
    /\ thr' = IF thr[t].call.op = "record_turn"
              THEN [thr EXCEPT ![t].pc = "rt_now"]
              ELSE [thr EXCEPT ![t].pc = "done", ![t].ret = thr[t].state]
    /\ UNCHANGED <<sessions, clock, clock_seen>>
    /\ TrackerFrame

\* record_turn line 93: now = self._now_utc()
rt_now(t) ==
    /\ thr[t].pc = "rt_now"
    /\ thr' = [thr EXCEPT ![t].now = clock, ![t].pc = "rt_load_input"]
    /\ clock_seen' = TRUE
    /\ UNCHANGED <<sessions, heap, clock>>
    /\ TrackerFrame

\* record_turn line 94-96, the read of "state.<counter> += ..."
rt_load(t) ==
    /\ thr[t].pc \in {"rt_load_input", "rt_load_output", "rt_load_turn"}
    /\ thr' = [thr EXCEPT
                  ![t].tmp = CASE thr[t].pc = "rt_load_input" -> heap[thr[t].state].total_input_tokens
                               [] thr[t].pc = "rt_load_output" -> heap[thr[t].state].total_output_tokens
                               [] OTHER -> heap[thr[t].state].turn_count,
                  ![t].pc = CASE thr[t].pc = "rt_load_input" -> "rt_store_input"
                              [] thr[t].pc = "rt_load_output" -> "rt_store_output"
                              [] OTHER -> "rt_store_turn"]
    /\ UNCHANGED <<sessions, heap, clock, clock_seen>>
    /\ TrackerFrame

\* record_turn line 94-96, the write of "state.<counter> += ..."
rt_store(t) ==
    /\ thr[t].pc \in {"rt_store_input", "rt_store_output", "rt_store_turn"}
    /\ heap' = CASE thr[t].pc = "rt_store_input" ->
                      [heap EXCEPT ![thr[t].state].total_input_tokens =
                          thr[t].tmp + clamp_tokens(thr[t].call.input_tokens)]
                 [] thr[t].pc = "rt_store_output" ->
                      [heap EXCEPT ![thr[t].state].total_output_tokens =
                          thr[t].tmp + clamp_tokens(thr[t].call.output_tokens)]
                 [] OTHER ->
                      [heap EXCEPT ![thr[t].state].turn_count = thr[t].tmp + 1]
    /\ thr' = [thr EXCEPT
                  ![t].pc = CASE thr[t].pc = "rt_store_input" -> "rt_load_output"
                              [] thr[t].pc = "rt_store_output" -> "rt_load_turn"
                              [] OTHER -> "rt_touch"]
    /\ UNCHANGED <<sessions, clock, clock_seen>>
    /\ TrackerFrame

\* record_turn line 97: state.last_activity = now
rt_touch(t) ==
    /\ thr[t].pc = "rt_touch"
    /\ heap' = [heap EXCEPT ![thr[t].state].last_activity = thr[t].now]
    /\ thr' = [thr EXCEPT ![t].pc = "rt_merge"]
    /\ UNCHANGED <<sessions, clock, clock_seen>>
    /\ TrackerFrame

\* record_turn line 98: state.metadata.update(metadata)
rt_merge(t) ==
    /\ thr[t].pc = "rt_merge"
    /\ heap' = [heap EXCEPT ![thr[t].state].metadata = metadata_update(@, thr[t].call.metadata)]
    /\ thr' = [thr EXCEPT ![t].pc = "rt_append"]
    /\ UNCHANGED <<sessions, clock, clock_seen>>
    /\ TrackerFrame

\* record_turn line 99-110: append the llm_turn event and return state
rt_append(t) ==
    /\ thr[t].pc = "rt_append"
    /\ heap' = [heap EXCEPT ![thr[t].state].events =
                    Append(@, SessionEvent(thr[t].now, "llm_turn",
                              [input_tokens |-> thr[t].call.input_tokens,
                               output_tokens |-> thr[t].call.output_tokens,
                               metadata |-> thr[t].call.metadata]))]
    /\ thr' = [thr EXCEPT ![t].pc = "done", ![t].ret = thr[t].state]
    /\ UNCHANGED <<sessions, clock, clock_seen>>
    /\ TrackerFrame

ConcTick ==
    /\ clock_seen
    /\ \E t \in Threads : thr[t].pc # "done"
    /\ clock' = clock + 1
    /\ clock_seen' = FALSE
    /\ UNCHANGED <<sessions, heap, thr>>
    /\ TrackerFrame

NextConcurrent ==
    \/ ConcTick
    \/ \E t \in Threads :
        \/ rt_get(t)
        \/ ss_now(t)
        \/ ss_get(t)
        \/ ss_new(t)
        \/ ss_touch(t)
        \/ ss_merge(t)
        \/ ss_append(t)
        \/ rt_now(t)
        \/ rt_load(t)
        \/ rt_store(t)
        \/ rt_touch(t)
        \/ rt_merge(t)
        \/ rt_append(t)

SpecConcurrent == InitConcurrent /\ [][NextConcurrent]_vars

---------------------------------------------------------------------------
(* Properties of the tracker under concurrent calls *)

AllDone == \A t \in Threads : thr[t].pc = "done"
TurnThreads == {t \in Threads : thr[t].call.op = "record_turn"}

RECURSIVE SumOverThreads(_, _)
\* sum of max(0, field f of the call) over the threads of T
SumOverThreads(T, f) ==
    IF T = {} THEN 0
    ELSE LET t == CHOOSE x \in T : TRUE
             v == thr[t].call[f]
         IN  (IF v > 0 THEN v ELSE 0) + SumOverThreads(T \ {t}, f)

TurnEvents(st) == {i \in 1..Len(st.events) : st.events[i].event_type = "llm_turn"}

\* C2: k threads each calling record_turn once on an existing session leave
\* turn_count grown by k, the token totals grown by the sum of the clamped
\* inputs, and k new llm_turn events, for every interleaving.
C2_NoLostUpdate ==
    (ret # 0 /\ AllDone /\ TurnThreads = Threads) =>
        /\ heap[ret].turn_count = NumThreads
        /\ heap[ret].total_input_tokens = SumOverThreads(Threads, "input_tokens")
        /\ heap[ret].total_output_tokens = SumOverThreads(Threads, "output_tokens")
        /\ Cardinality(TurnEvents(heap[ret])) = NumThreads

\* C3: threads calling record_turn or start_session concurrently for an id
\* not yet registered create exactly one SessionState, every call returns the
\* registered state, and its turn_count is the number of record_turn calls.
C3_SingleCreation ==
    (ret = 0 /\ AllDone) =>
        /\ Len(heap) = 1
        /\ \A t \in Threads : thr[t].ret = dict_get(sessions, ConcSid)
        /\ heap[dict_get(sessions, ConcSid)].turn_count = Cardinality(TurnThreads)

---------------------------------------------------------------------------
(* HybridEmbeddingDriftDetector.  Embedding components are integers; a
   centroid is kept as the component sums and the count n it is divided by;
   drift scores are fixed-point numbers in units of 1/ScoreScale. *)

ScoreScale == 1000

\* the embeddings the collaborator may return: dimension 0, 1 or 2
VertexEmbeddings == { <<>>, <<1>>, <<1, 0>>, <<0, 1>>, <<0, 0>> }
MinilmEmbeddings == { <<>>, <<1>>, <<-1, 1>> }
\* constructor arguments: 0.2 and -0.1 in units of 1/ScoreScale
ThresholdArgs == { 200, -100 }

Max(a, b) == IF a >= b THEN a ELSE b
Min(a, b) == IF a <= b THEN a ELSE b

RECURSIVE SqrtSearch(_, _, _)
\* the largest r in lo..hi with r * r <= x
SqrtSearch(x, lo, hi) ==
    IF lo >= hi THEN lo
    ELSE LET mid == (lo + hi + 1) \div 2
         IN  IF mid * mid <= x THEN SqrtSearch(x, mid, hi) ELSE SqrtSearch(x, lo, mid - 1)

\* floor(math.sqrt(x))
ISqrt(x) == SqrtSearch(x, 0, x)

\* floor(ScoreScale * math.sqrt(x))
ScaledSqrt(x) ==
    SqrtSearch(x * ScoreScale * ScoreScale, ScoreScale * ISqrt(x), ScoreScale * (ISqrt(x) + 1))

RECURSIVE Dot(_, _)
\* sum of a[i] * b[i] over zip(a, b)
Dot(a, b) ==
    IF a = <<>> \/ b = <<>> THEN 0
    ELSE Head(a) * Head(b) + Dot(Tail(a), Tail(b))

\* _cosine_distance(a, b) with b = b_sum / b_n component-wise (b_n > 0):
\* 1 - dot / (sqrt(na) * sqrt(nb)); the factor 1 / b_n cancels
cosine_distance(a, b_sum, b_n) ==
    IF Len(a) # Len(b_sum) \/ Len(a) = 0 THEN 0
    ELSE LET dot == Dot(a, b_sum)
             na == Dot(a, a)
             nb == Dot(b_sum, b_sum)
         IN  IF na = 0 \/ nb = 0 THEN 0
             ELSE LET denom == ScaledSqrt(na * nb)
                      num == dot * ScoreScale * ScoreScale
                      \* the quotient, truncated toward zero
                      cos == IF num >= 0 THEN num \div denom ELSE -((-num) \div denom)
                  IN  ScoreScale - cos

\* for i, v in enumerate(vec): centroid[i] += v   (vec no longer than centroid)
AddInto(centroid, vec) ==
    [i \in 1..Len(centroid) |-> centroid[i] + (IF i <= Len(vec) THEN vec[i] ELSE 0)]

RECURSIVE SumHistory(_, _)
SumHistory(centroid, history) ==
    IF history = <<>> THEN centroid
    ELSE SumHistory(AddInto(centroid, Head(history)), Tail(history))

\* _baseline_centroid: None, the centroid, or IndexError when an entry is
\* longer than the first one (centroid[i] += v with i >= dim)
baseline_centroid(history) ==
    IF history = <<>> THEN [kind |-> "None"]
    ELSE LET dim == Len(history[1])
         IN  IF dim = 0 THEN [kind |-> "None"]
             ELSE IF \E k \in 1..Len(history) : Len(history[k]) > dim
                  THEN [kind |-> "IndexError"]
                  ELSE [ kind |-> "centroid",
                         sum |-> SumHistory([i \in 1..dim |-> 0], history),
                         n |-> Len(history) ]

\* update_and_score lines 81-89: the drift of one source against its centroid
source_drift(embedding, centroid) ==
    IF centroid.kind = "None" THEN 0
    ELSE cosine_distance(embedding, centroid.sum, centroid.n)

\* deque(maxlen).append: the oldest entry leaves once the deque is full
deque_append_drop_newest(history, x, maxlen) ==
    IF Len(history) >= maxlen THEN history ELSE Append(history, x)
deque_append(history, x, maxlen) ==
    IF Len(history) >= maxlen THEN Append(Tail(history), x) ELSE Append(history, x)

\* __init__
new_detector(window_size, drift_threshold) ==
    [ window_size |-> Max(1, window_size),
      drift_threshold |-> Max(0, drift_threshold),
      vertex_history |-> <<>>,
      minilm_history |-> <<>> ]

\* update_and_score with the push moved before the scoring
update_and_score_push_first(det, vertex_embedding, minilm_embedding) ==
    LET vh == deque_append(det.vertex_history, vertex_embedding, det.window_size)
        mh == deque_append(det.minilm_history, minilm_embedding, det.window_size)
        vertex_centroid == baseline_centroid(vh)
        minilm_centroid == baseline_centroid(mh)
    IN  IF vertex_centroid.kind = "IndexError" \/ minilm_centroid.kind = "IndexError"
        THEN [detector |-> det, result |-> [kind |-> "IndexError"]]
        ELSE LET vertex_drift == source_drift(vertex_embedding, vertex_centroid)
                 minilm_drift == source_drift(minilm_embedding, minilm_centroid)
                 hybrid_score == (vertex_drift + minilm_drift) \div 2
             IN  [ detector |-> [det EXCEPT !.vertex_history = vh, !.minilm_history = mh],
                   result |-> [ kind |-> "DriftResult",
                                window_size |-> Len(vh),
                                hybrid_drift_score |-> hybrid_score,
                                vertex_drift_score |-> vertex_drift,
                                minilm_drift_score |-> minilm_drift,
                                is_drift |-> hybrid_score >= det.drift_threshold ] ]

\* update_and_score that keeps empty embeddings out of the histories
update_and_score_skip_empty(det, vertex_embedding, minilm_embedding) ==
    LET vertex_centroid == baseline_centroid(det.vertex_history)
        minilm_centroid == baseline_centroid(det.minilm_history)
    IN  IF vertex_centroid.kind = "IndexError" \/ minilm_centroid.kind = "IndexError"
        THEN [detector |-> det, result |-> [kind |-> "IndexError"]]
        ELSE LET vertex_drift == source_drift(vertex_embedding, vertex_centroid)
                 minilm_drift == source_drift(minilm_embedding, minilm_centroid)
                 hybrid_score == (vertex_drift + minilm_drift) \div 2
                 vh == IF vertex_embedding = <<>> THEN det.vertex_history
                       ELSE deque_append(det.vertex_history, vertex_embedding, det.window_size)
                 mh == IF minilm_embedding = <<>> THEN det.minilm_history
                       ELSE deque_append(det.minilm_history, minilm_embedding, det.window_size)
             IN  [ detector |-> [det EXCEPT !.vertex_history = vh, !.minilm_history = mh],
                   result |-> [ kind |-> "DriftResult",
                                window_size |-> Len(vh),
                                hybrid_drift_score |-> hybrid_score,
                                vertex_drift_score |-> vertex_drift,
                                minilm_drift_score |-> minilm_drift,
                                is_drift |-> hybrid_score >= det.drift_threshold ] ]

\* update_and_score: the whole call; an IndexError of _baseline_centroid
\* leaves the call before anything is pushed
update_and_score(det, vertex_embedding, minilm_embedding) ==
    LET vertex_centroid == baseline_centroid(det.vertex_history)
        minilm_centroid == baseline_centroid(det.minilm_history)
    IN  IF vertex_centroid.kind = "IndexError" \/ minilm_centroid.kind = "IndexError"
        THEN [detector |-> det, result |-> [kind |-> "IndexError"]]
        ELSE LET vertex_drift == source_drift(vertex_embedding, vertex_centroid)
                 minilm_drift == source_drift(minilm_embedding, minilm_centroid)
                 hybrid_score == (vertex_drift + minilm_drift) \div 2
                 vh == deque_append(det.vertex_history, vertex_embedding, det.window_size)
                 mh == deque_append(det.minilm_history, minilm_embedding, det.window_size)
             IN  [ detector |-> [det EXCEPT !.vertex_history = vh, !.minilm_history = mh],
                   result |-> [ kind |-> "DriftResult",
                                window_size |-> Len(vh),
                                hybrid_drift_score |-> hybrid_score,
                                vertex_drift_score |-> vertex_drift,
                                minilm_drift_score |-> minilm_drift,
                                is_drift |-> hybrid_score >= det.drift_threshold ] ]

\* the tracker when a specification does not use it
TrackerIdle ==
    /\ sessions = <<>>
    /\ heap = <<>>
    /\ clock = 0
    /\ clock_seen = FALSE
    /\ snapshot = <<>>
    /\ ret = 0
    /\ nops = 0
    /\ turn_log = [sid \in SessionIds |-> <<>>]
    /\ thr = <<>>

InitDrift ==
    /\ AnomalyIdle
    /\ ExtIdle
    /\ TrackerIdle
    /\ ChatIdle
    /\ \E window_size \in 0..MaxWindow, drift_threshold \in ThresholdArgs :
         detector = new_detector(window_size, drift_threshold)
    /\ drift_result = [kind |-> "none"]
    /\ drift_calls = <<>>
    /\ dthr = <<>>

UpdateAndScore ==
    /\ Len(drift_calls) < MaxCalls
    /\ \E v \in VertexEmbeddings, m \in MinilmEmbeddings :
         LET r == update_and_score(detector, v, m)
         IN  /\ detector' = r.detector
             /\ drift_result' = r.result
             /\ drift_calls' = Append(drift_calls,
                    [vertex |-> v, minilm |-> m, returned |-> r.result.kind = "DriftResult"])
    /\ UNCHANGED <<trackerVars, dthr, chatVars, anomalyVars, extVars>>

NextDrift == UpdateAndScore

SpecDrift == InitDrift /\ [][NextDrift]_vars

---------------------------------------------------------------------------
(* update_and_score called from concurrent request threads on the one
   detector the orchestrator shares.  The detector takes no lock.  A step is
   a deque operation or the start or the end of the iteration over a deque; a
   deque that is appended to while a thread iterates over it makes that
   thread's iteration raise RuntimeError. *)

DriftCalls ==
    { [vertex |-> v, minilm |-> m] : v \in VertexEmbeddings, m \in MinilmEmbeddings }

NewDriftThread(call) ==
    [ call |-> call,
      pc |-> "vertex_begin",
      mutated |-> FALSE,                        \* the deque iterated over was appended to
      vertex_centroid |-> [kind |-> "None"],
      minilm_centroid |-> [kind |-> "None"],
      result |-> [kind |-> "none"] ]

\* the detector before the threads start: new, or after one call
InitDriftConcurrent ==
    /\ AnomalyIdle
    /\ ExtIdle
    /\ TrackerIdle
    /\ ChatIdle
    /\ \E window_size \in 1..MaxWindow, earlier \in {<<>>, <<[vertex |-> <<1, 0>>, minilm |-> <<1>>]>>} :
         /\ detector = IF earlier = <<>>
                       THEN new_detector(window_size, 200)
                       ELSE update_and_score(new_detector(window_size, 200),
                                             earlier[1].vertex, earlier[1].minilm).detector
         /\ drift_calls = [i \in 1..Len(earlier) |->
                              [vertex |-> earlier[i].vertex, minilm |-> earlier[i].minilm,
                               returned |-> TRUE]]
    /\ drift_result = [kind |-> "none"]
    /\ dthr \in [Threads -> {NewDriftThread(c) : c \in DriftCalls}]

DriftFrame == UNCHANGED <<trackerVars, drift_result, drift_calls, chatVars, anomalyVars, extVars>>

\* _baseline_centroid lines 60-65 for the vertex history (called at line 78):
\* empty history or empty first entry return None, else the iteration starts
us_vertex_begin(t) ==
    /\ dthr[t].pc = "vertex_begin"
    /\ dthr' = IF baseline_centroid(detector.vertex_history).kind = "None"
               THEN [dthr EXCEPT ![t].pc = "minilm_begin"]
               ELSE [dthr EXCEPT ![t].pc = "vertex_iterate", ![t].mutated = FALSE]
    /\ UNCHANGED detector
    /\ DriftFrame

\* _baseline_centroid lines 66-70 for the vertex history
us_vertex_iterate(t) ==
    /\ dthr[t].pc = "vertex_iterate"
    /\ LET c == baseline_centroid(detector.vertex_history)
       IN  dthr' = IF dthr[t].mutated
                   THEN [dthr EXCEPT ![t].pc = "done", ![t].result = [kind |-> "RuntimeError"]]
                   ELSE IF c.kind = "IndexError"
                   THEN [dthr EXCEPT ![t].pc = "done", ![t].result = [kind |-> "IndexError"]]
                   ELSE [dthr EXCEPT ![t].pc = "minilm_begin", ![t].vertex_centroid = c]
    /\ UNCHANGED detector
    /\ DriftFrame

\* _baseline_centroid lines 60-65 for the minilm history (called at line 79)
us_minilm_begin(t) ==
    /\ dthr[t].pc = "minilm_begin"
    /\ dthr' = IF baseline_centroid(detector.minilm_history).kind = "None"
               THEN [dthr EXCEPT ![t].pc = "push_vertex"]
               ELSE [dthr EXCEPT ![t].pc = "minilm_iterate", ![t].mutated = FALSE]
    /\ UNCHANGED detector
    /\ DriftFrame

\* _baseline_centroid lines 66-70 for the minilm history
us_minilm_iterate(t) ==
    /\ dthr[t].pc = "minilm_iterate"
    /\ LET c == baseline_centroid(detector.minilm_history)
       IN  dthr' = IF dthr[t].mutated
                   THEN [dthr EXCEPT ![t].pc = "done", ![t].result = [kind |-> "RuntimeError"]]
                   ELSE IF c.kind = "IndexError"
                   THEN [dthr EXCEPT ![t].pc = "done", ![t].result = [kind |-> "IndexError"]]
                   ELSE [dthr EXCEPT ![t].pc = "push_vertex", ![t].minilm_centroid = c]
    /\ UNCHANGED detector
    /\ DriftFrame

\* update_and_score line 95 (after the thread-local scoring of lines 81-92):
\* self._vertex_history.append(vertex_embedding)
us_push_vertex(t) ==
    /\ dthr[t].pc = "push_vertex"
    /\ detector' = [detector EXCEPT !.vertex_history =
                        deque_append(@, dthr[t].call.vertex, detector.window_size)]
    /\ dthr' = [u \in Threads |->
                  IF u = t THEN [dthr[u] EXCEPT !.pc = "push_minilm"]
                  ELSE IF dthr[u].pc = "vertex_iterate" THEN [dthr[u] EXCEPT !.mutated = TRUE]
                  ELSE dthr[u]]
    /\ DriftFrame

\* update_and_score line 96: self._minilm_history.append(minilm_embedding)
us_push_minilm(t) ==
    /\ dthr[t].pc = "push_minilm"
    /\ detector' = [detector EXCEPT !.minilm_history =
                        deque_append(@, dthr[t].call.minilm, detector.window_size)]
    /\ dthr' = [u \in Threads |->
                  IF u = t THEN [dthr[u] EXCEPT !.pc = "return"]
                  ELSE IF dthr[u].pc = "minilm_iterate" THEN [dthr[u] EXCEPT !.mutated = TRUE]
                  ELSE dthr[u]]
    /\ DriftFrame

\* update_and_score lines 98-106: the DriftResult, window_size read from the
\* vertex history as it is now
us_return(t) ==
    /\ dthr[t].pc = "return"
    /\ LET vertex_drift == source_drift(dthr[t].call.vertex, dthr[t].vertex_centroid)
           minilm_drift == source_drift(dthr[t].call.minilm, dthr[t].minilm_centroid)
           hybrid_score == (vertex_drift + minilm_drift) \div 2
       IN  dthr' = [dthr EXCEPT ![t].pc = "done",
                                ![t].result =
                                    [ kind |-> "DriftResult",
                                      window_size |-> Len(detector.vertex_history),
                                      hybrid_drift_score |-> hybrid_score,
                                      vertex_drift_score |-> vertex_drift,
                                      minilm_drift_score |-> minilm_drift,
                                      is_drift |-> hybrid_score >= detector.drift_threshold ]]
    /\ UNCHANGED detector
    /\ DriftFrame

NextDriftConcurrent ==
    \E t \in Threads :
        \/ us_vertex_begin(t)
        \/ us_vertex_iterate(t)
        \/ us_minilm_begin(t)
        \/ us_minilm_iterate(t)
        \/ us_push_vertex(t)
        \/ us_push_minilm(t)
        \/ us_return(t)

SpecDriftConcurrent == InitDriftConcurrent /\ [][NextDriftConcurrent]_vars

---------------------------------------------------------------------------
(* LLMOrchestrator.handle_chat and _post_observability_processing: one
   request at a time, each collaborator call one step.  A sink call (an HTTP
   request to the telemetry backend) ends ok, with a non-2xx status, or with
   a network error. *)

LATENCY_THRESHOLD_MS == 2000
DRIFT_THRESHOLD == 200

SinkOutcomes == {"ok", "http_error", "network_error"}
allowed_severity == {"critical", "high", "medium", "low"}

\* what the model backend returns: latency, usage, and the embeddings of the output text
ChatResponses ==
    { [latency_ms |-> 100, input_tokens |-> 10, output_tokens |-> 5,
       vertex |-> <<1, 0>>, minilm |-> <<1>>],
      [latency_ms |-> 2500, input_tokens |-> 0, output_tokens |-> 0,
       vertex |-> <<0, 1>>, minilm |-> <<-1, 1>>],
      [latency_ms |-> 100, input_tokens |-> 3, output_tokens |-> 7,
       vertex |-> <<>>, minilm |-> <<>>] }
NoResponse ==
    [latency_ms |-> 0, input_tokens |-> 0, output_tokens |-> 0, vertex |-> <<>>, minilm |-> <<>>]

\* the metadata record_turn is given at lines 101-105
SettingsMetadata == [model |-> "gemini", environment |-> "dev"]

\* MetricSender.gauge: a failed delivery is printed, nothing is raised
gauge(outcome) == [raised |-> FALSE]

\* DatadogEventEmitter.emit_event: a failed delivery is printed, nothing is raised
emit_event(outcome) == [raised |-> FALSE]

\* CaseGenerator.create_case: ValueError for a severity outside the allowed
\* set before any request; the exception of requests.post on a network error;
\* RuntimeError on a status >= 300
create_case(severity, outcome) ==
    IF severity \notin allowed_severity THEN [raised |-> TRUE, error |-> "ValueError", sent |-> FALSE]
    ELSE IF outcome = "network_error" THEN [raised |-> TRUE, error |-> "ConnectionError", sent |-> TRUE]
    ELSE IF outcome = "http_error" THEN [raised |-> TRUE, error |-> "RuntimeError", sent |-> TRUE]
    ELSE [raised |-> FALSE, error |-> "", sent |-> TRUE]

NoOutcome == [kind |-> "none", by |-> "", error |-> ""]
Returned == [kind |-> "returned", by |-> "", error |-> ""]
RaisedBy(by, error) == [kind |-> "raised", by |-> by, error |-> error]

\* the module-level singletons of lines 31-50: a new tracker, a new detector,
\* and the sink adapters that could be constructed
InitChat ==
    /\ AnomalyIdle
    /\ ExtIdle
    /\ sessions = <<>>
    /\ heap = <<>>
    /\ clock = 0
    /\ clock_seen = FALSE
    /\ snapshot = <<>>
    /\ ret = 0
    /\ nops = 0
    /\ turn_log = [sid \in SessionIds |-> <<>>]
    /\ thr = <<>>
    /\ detector = new_detector(MaxWindow, DRIFT_THRESHOLD)
    /\ drift_result = [kind |-> "none"]
    /\ drift_calls = <<>>
    /\ dthr = <<>>
    /\ chat = [pc |-> "idle", session_id |-> "", res |-> NoResponse, backend |-> "none",
               sink_failed |-> FALSE, outcome |-> NoOutcome]
    /\ \E emitter \in BOOLEAN, cases \in BOOLEAN :
         chat_env = [event_emitter |-> emitter, case_generator |-> cases, requests |-> 0]

ChatFrame == UNCHANGED <<snapshot, ret, thr, dthr, anomalyVars, extVars>>

\* the exception leaves handle_chat
ChatRaise(by, error) ==
    chat' = [chat EXCEPT !.pc = "idle", !.outcome = RaisedBy(by, error)]

ChatTick ==
    /\ chat.pc = "idle"
    /\ clock_seen
    /\ chat_env.requests < MaxRequests
    /\ clock' = clock + 1
    /\ clock_seen' = FALSE
    /\ UNCHANGED <<sessions, heap, nops, turn_log, detector, drift_result, drift_calls, chat, chat_env>>
    /\ ChatFrame

\* handle_chat lines 223-230: a request arrives with its session id
HandleChat ==
    /\ chat.pc = "idle"
    /\ chat_env.requests < MaxRequests
    /\ \E sid \in SessionIds :
         chat' = [pc |-> "generate", session_id |-> sid, res |-> NoResponse, backend |-> "none",
                  sink_failed |-> FALSE, outcome |-> NoOutcome]
    /\ chat_env' = [chat_env EXCEPT !.requests = @ + 1]
    /\ UNCHANGED <<sessions, heap, clock, clock_seen, nops, turn_log, detector, drift_result, drift_calls>>
    /\ ChatFrame

\* handle_chat line 231: the backend returns a response, or fails
GenerateChat ==
    /\ chat.pc = "generate"
    /\ \/ \E res \in ChatResponses :
            chat' = [chat EXCEPT !.pc = "record_turn", !.res = res, !.backend = "returned"]
       \/ chat' = [chat EXCEPT !.pc = "idle", !.backend = "raised",
                               !.outcome = RaisedBy("backend", "Exception")]
    /\ UNCHANGED <<sessions, heap, clock, clock_seen, nops, turn_log, detector, drift_result, drift_calls, chat_env>>
    /\ ChatFrame

\* _post_observability_processing lines 97-106: _SESSION_TRACKER.record_turn
PostRecordTurn ==
    /\ chat.pc = "record_turn"
    /\ LET r == record_turn(sessions, heap, chat.session_id, chat.res.input_tokens,
                            chat.res.output_tokens, SettingsMetadata, clock, clock)
       IN  /\ sessions' = r.sessions
           /\ heap' = r.heap
    /\ clock_seen' = TRUE
    /\ nops' = nops + 1
    /\ turn_log' = [turn_log EXCEPT ![chat.session_id] =
                        Append(@, <<chat.res.input_tokens, chat.res.output_tokens>>)]
    /\ chat' = [chat EXCEPT !.pc = "metrics"]
    /\ UNCHANGED <<clock, detector, drift_result, drift_calls, chat_env>>
    /\ ChatFrame

\* lines 116-134 (latency, token and cost gauges) and line 145 (drift gauge)
PostGauges ==
    /\ chat.pc \in {"metrics", "drift_metric"}
    /\ \E outcome \in SinkOutcomes :
         IF gauge(outcome).raised
         THEN ChatRaise("sink", "MetricSender")
         ELSE chat' = [chat EXCEPT !.pc = IF chat.pc = "metrics" THEN "drift" ELSE "drift_event",
                                   !.sink_failed = @ \/ outcome # "ok"]
    /\ UNCHANGED <<sessions, heap, clock, clock_seen, nops, turn_log, detector, drift_result, drift_calls, chat_env>>
    /\ ChatFrame

\* lines 140-143: the embeddings of the output text, then _DRIFT_DETECTOR.update_and_score
PostDrift ==
    /\ chat.pc = "drift"
    /\ LET r == update_and_score(detector, chat.res.vertex, chat.res.minilm)
       IN  /\ detector' = r.detector
           /\ drift_result' = r.result
           /\ drift_calls' = Append(drift_calls,
                  [vertex |-> chat.res.vertex, minilm |-> chat.res.minilm,
                   returned |-> r.result.kind = "DriftResult"])
           /\ IF r.result.kind = "DriftResult"
              THEN chat' = [chat EXCEPT !.pc = "drift_metric"]
              ELSE ChatRaise("drift_detector", r.result.kind)
    /\ UNCHANGED <<sessions, heap, clock, clock_seen, nops, turn_log, chat_env>>
    /\ ChatFrame

\* lines 180-183 and 190-193: _EVENT_EMITTER.emit_drift_event / emit_latency_event
PostEvents ==
    /\ chat.pc \in {"drift_event", "latency_event"}
    /\ LET due == IF chat.pc = "drift_event" THEN drift_result.is_drift
                  ELSE chat.res.latency_ms >= LATENCY_THRESHOLD_MS
           next == IF chat.pc = "drift_event"
                   THEN (IF due THEN "drift_case" ELSE "latency_event")
                   ELSE (IF due THEN "latency_case" ELSE "return")
       IN  IF due /\ chat_env.event_emitter
           THEN \E outcome \in SinkOutcomes :
                  IF emit_event(outcome).raised
                  THEN ChatRaise("sink", "DatadogEventEmitter")
                  ELSE chat' = [chat EXCEPT !.pc = next, !.sink_failed = @ \/ outcome # "ok"]
           ELSE chat' = [chat EXCEPT !.pc = next]
    /\ UNCHANGED <<sessions, heap, clock, clock_seen, nops, turn_log, detector, drift_result, drift_calls, chat_env>>
    /\ ChatFrame

\* lines 184-187 and 194-197: _CASE_GENERATOR.create_llm_drift_case ("medium")
\* / create_latency_case ("high")
PostCases ==
    /\ chat.pc \in {"drift_case", "latency_case"}
    /\ LET severity == IF chat.pc = "drift_case" THEN "medium" ELSE "high"
           next == IF chat.pc = "drift_case" THEN "latency_event" ELSE "return"
       IN  IF chat_env.case_generator
           THEN \E outcome \in SinkOutcomes :
                  LET c == create_case(severity, outcome)
                  IN  IF c.raised
                      THEN ChatRaise("sink", c.error)
                      ELSE chat' = [chat EXCEPT !.pc = next]
           ELSE chat' = [chat EXCEPT !.pc = next]
    /\ UNCHANGED <<sessions, heap, clock, clock_seen, nops, turn_log, detector, drift_result, drift_calls, chat_env>>
    /\ ChatFrame

\* lines 203-217 and 234: annotate and return the response
ChatReturn ==
    /\ chat.pc = "return"
    /\ chat' = [chat EXCEPT !.pc = "idle", !.outcome = Returned]
    /\ UNCHANGED <<sessions, heap, clock, clock_seen, nops, turn_log, detector, drift_result, drift_calls, chat_env>>
    /\ ChatFrame

NextChat ==
    \/ ChatTick
    \/ HandleChat
    \/ GenerateChat
    \/ PostRecordTurn
    \/ PostGauges
    \/ PostDrift
    \/ PostEvents
    \/ PostCases
    \/ ChatReturn

SpecChat == InitChat /\ [][NextChat]_vars

---------------------------------------------------------------------------
(* Anomaly scorers.  Series values are integers and the arithmetic is exact:
   "z >= threshold" is compared after squaring and clearing denominators,
   medians are kept doubled. *)

\* the default thresholds 3.0 and 3.5 in tenths, and 0.6745 in ten-thousandths
Z_THRESHOLD_TENTHS == 30
MAD_THRESHOLD_TENTHS == 35
MAD_FACTOR_E4 == 6745

BaseValues == {0, 5, -3}
Deltas == {1, -7, 40}

Abs(x) == IF x >= 0 THEN x ELSE -x

RECURSIVE SumSeq(_)
SumSeq(xs) == IF xs = <<>> THEN 0 ELSE Head(xs) + SumSeq(Tail(xs))

RECURSIVE Insert(_, _)
Insert(x, sorted) ==
    IF sorted = <<>> THEN <<x>>
    ELSE IF x <= Head(sorted) THEN <<x>> \o sorted
    ELSE <<Head(sorted)>> \o Insert(x, Tail(sorted))

RECURSIVE Sorted(_)
\* sorted(xs)
Sorted(xs) == IF xs = <<>> THEN <<>> ELSE Insert(Head(xs), Sorted(Tail(xs)))

\* twice the median of a sorted sequence of length n >= 1 (lines 38-43, 47-50)
Median2(sorted) ==
    LET n == Len(sorted)
        mid == n \div 2
    IN  IF n % 2 = 1 THEN 2 * sorted[mid + 1] ELSE sorted[mid] + sorted[mid + 1]

\* z_score_anomalies: with dev = n * (x - mean) and q = n^3 * var,
\* |x - mean| / std >= threshold  iff  100 * n * dev^2 >= tenths^2 * q.
\* Where the two sides are equal the floating-point quotient may fall on
\* either side of the threshold; the properties below leave that case open.
z_score_anomalies(data, threshold_tenths) ==
    LET n == Len(data)
        total == SumSeq(data)
        dev == [i \in 1..n |-> n * data[i] - total]
        q == SumSeq([i \in 1..n |-> dev[i] * dev[i]])
    IN  IF n = 0 THEN <<>>
        ELSE IF q = 0 THEN [i \in 1..n |-> FALSE]
        ELSE [i \in 1..n |->
                 100 * n * dev[i] * dev[i] >= threshold_tenths * threshold_tenths * q]

\* mad_anomalies without the "mad == 0" return: a deviation over a zero MAD
\* counts as infinite
mad_anomalies_no_zero_guard(data, threshold_tenths) ==
    LET n == Len(data)
        median2 == Median2(Sorted(data))
        abs_devs2 == [i \in 1..n |-> Abs(2 * data[i] - median2)]
        mad4 == Median2(Sorted(abs_devs2))
    IN  IF n = 0 THEN <<>>
        ELSE [i \in 1..n |->
                 /\ abs_devs2[i] > 0
                 /\ MAD_FACTOR_E4 * 2 * abs_devs2[i] >= 1000 * threshold_tenths * mad4]

\* mad_anomalies: abs_devs2 = 2 * |x - median|, mad4 = 4 * MAD, and
\* 0.6745 * dev / mad >= threshold  iff  6745 * 2 * abs_devs2 >= 1000 * tenths * mad4
mad_anomalies(data, threshold_tenths) ==
    LET n == Len(data)
        median2 == Median2(Sorted(data))
        abs_devs2 == [i \in 1..n |-> Abs(2 * data[i] - median2)]
        mad4 == Median2(Sorted(abs_devs2))
    IN  IF n = 0 THEN <<>>
        ELSE IF mad4 = 0 THEN [i \in 1..n |-> FALSE]
        ELSE [i \in 1..n |->
                 MAD_FACTOR_E4 * 2 * abs_devs2[i] >= 1000 * threshold_tenths * mad4]

\* the series scored: a base value everywhere except at up to two positions
InitAnomaly ==
    /\ ExtIdle
    /\ TrackerIdle
    /\ DriftIdle
    /\ ChatIdle
    /\ \E n \in 0..MaxSeriesLen, base \in BaseValues, delta \in Deltas :
         \E outliers \in {P \in SUBSET (1..n) : Cardinality(P) <= 2} :
            series = [i \in 1..n |-> IF i \in outliers THEN base + delta ELSE base]
    /\ z_result = [called |-> FALSE, flags |-> <<>>]
    /\ mad_result = [called |-> FALSE, flags |-> <<>>]

ZScoreAnomalies ==
    /\ ~z_result.called
    /\ z_result' = [called |-> TRUE, flags |-> z_score_anomalies(series, Z_THRESHOLD_TENTHS)]
    /\ UNCHANGED <<trackerVars, driftVars, chatVars, extVars, series, mad_result>>

MadAnomalies ==
    /\ ~mad_result.called
    /\ mad_result' = [called |-> TRUE, flags |-> mad_anomalies(series, MAD_THRESHOLD_TENTHS)]
    /\ UNCHANGED <<trackerVars, driftVars, chatVars, extVars, series, z_result>>

NextAnomaly ==
    \/ ZScoreAnomalies
    \/ MadAnomalies

SpecAnomaly == InitAnomaly /\ [][NextAnomaly]_vars

---------------------------------------------------------------------------
(* Properties of the drift detector used from one thread *)

ReturnedCalls == SelectSeq(drift_calls, LAMBDA c : c.returned)

\* the last k entries of s
LastK(s, k) == SubSeq(s, Len(s) - Min(Len(s), k) + 1, Len(s))

VertexOf(calls) == [i \in 1..Len(calls) |-> calls[i].vertex]
MinilmOf(calls) == [i \in 1..Len(calls) |-> calls[i].minilm]

\* the score of embedding against the mean of the window given
ScoredAgainst(score, embedding, window) ==
    LET c == baseline_centroid(window)
    IN  /\ c.kind # "IndexError"
        /\ score = source_drift(embedding, c)

\* C8: each source is scored against the mean of its history as it was before
\* the call (the window of the earlier calls), never including the embedding
\* being scored; the first call on a new detector returns 0.0 three times.
C8_ScoreBeforePush ==
    drift_result.kind = "DriftResult" =>
        LET n == Len(ReturnedCalls)
            earlier == SubSeq(ReturnedCalls, 1, n - 1)
            this == ReturnedCalls[n]
        IN  /\ ScoredAgainst(drift_result.vertex_drift_score, this.vertex,
                             LastK(VertexOf(earlier), detector.window_size))
            /\ ScoredAgainst(drift_result.minilm_drift_score, this.minilm,
                             LastK(MinilmOf(earlier), detector.window_size))
            /\ n = 1 => /\ drift_result.hybrid_drift_score = 0
                        /\ drift_result.vertex_drift_score = 0
                        /\ drift_result.minilm_drift_score = 0

\* a call scored against a baseline of earlier embeddings, both scores non-zero
C8_Witness ==
    /\ drift_result.kind = "DriftResult"
    /\ Len(ReturnedCalls) = MaxCalls
    /\ drift_result.vertex_drift_score > 0
    /\ drift_result.minilm_drift_score > 0

\* C5: update_and_score returns a DriftResult for every sequence of calls,
\* whatever the dimensions of the embeddings, and an embedding whose dimension
\* differs from the baseline's scores 0.0.
C5_NeverRaises ==
    /\ drift_result.kind # "IndexError"
    /\ drift_result.kind = "DriftResult" =>
        LET n == Len(ReturnedCalls)
            window == LastK(VertexOf(SubSeq(ReturnedCalls, 1, n - 1)), detector.window_size)
        IN  (window # <<>> /\ Len(window[1]) # Len(ReturnedCalls[n].vertex)) =>
                drift_result.vertex_drift_score = 0

\* C9: after n calls each history holds the last min(n, W) embeddings of its
\* source in call order, both have the same length, and the n-th call reports
\* window_size = min(n, W).
C9_HistoryIsLastCalls ==
    LET n == Len(drift_calls)
        W == detector.window_size
    IN  /\ detector.vertex_history = LastK(VertexOf(drift_calls), W)
        /\ detector.minilm_history = LastK(MinilmOf(drift_calls), W)
        /\ Len(detector.vertex_history) = Len(detector.minilm_history)
        /\ n > 0 => /\ drift_result.kind = "DriftResult"
                    /\ drift_result.window_size = Min(n, W)

---------------------------------------------------------------------------
(* Properties of the drift detector under concurrent calls *)

AllDriftDone == \A t \in Threads : dthr[t].pc = "done"

\* the orders in which the threads' calls can be made one after the other
ThreadOrders ==
    { o \in [1..NumThreads -> Threads] : \A i, j \in 1..NumThreads : o[i] = o[j] => i = j }

RECURSIVE ReplayCalls(_, _)
\* the detector after the calls of the sequence, made in order from det
ReplayCalls(det, calls) ==
    IF calls = <<>> THEN det
    ELSE ReplayCalls(update_and_score(det, Head(calls).vertex, Head(calls).minilm).detector,
                     Tail(calls))

\* the detector as it was before the threads started
DetectorBefore ==
    ReplayCalls(new_detector(detector.window_size, detector.drift_threshold), drift_calls)

\* the detector before the k-th call of order o
DetectorAt(o, k) ==
    ReplayCalls(DetectorBefore, [i \in 1..(k - 1) |-> dthr[o[i]].call])

\* C4: concurrent update_and_score calls are linearized: the returned results
\* and the final histories are those of the same calls made in some order one
\* after the other.
C4_Linearizable ==
    AllDriftDone =>
        \E o \in ThreadOrders :
            /\ \A k \in 1..NumThreads :
                 dthr[o[k]].result =
                     update_and_score(DetectorAt(o, k), dthr[o[k]].call.vertex,
                                      dthr[o[k]].call.minilm).result
            /\ detector = DetectorAt(o, NumThreads + 1)

---------------------------------------------------------------------------
(* Properties of the facade *)

\* C6: handle_chat never fails because of a sink: once the backend has
\* returned a response, handle_chat returns it even if sink calls fail.
C6_SinkFailureSwallowed ==
    (chat.pc = "idle" /\ chat.backend = "returned") =>
        ~(chat.outcome.kind = "raised" /\ chat.outcome.by = "sink")

---------------------------------------------------------------------------
(* Properties of the anomaly scorers *)

\* position p holds the single value that differs from all the others
SingleOutlierAt(p) ==
    /\ p \in 1..Len(series)
    /\ \A i, j \in 1..Len(series) : (i # p /\ j # p) => series[i] = series[j]
    /\ \E i \in 1..Len(series) : i # p /\ series[i] # series[p]

Scored == z_result.called /\ mad_result.called

---------------------------------------------------------------------------
(* Properties of the session events and of the registry *)

IsPrefix(s, t) == Len(s) <= Len(t) /\ \A i \in 1..Len(s) : t[i] = s[i]

Chronological(events) ==
    \A i \in 1..(Len(events) - 1) : events[i].timestamp <= events[i + 1].timestamp

EventsAppendOnly ==
    \A id \in 1..Len(heap) : IsPrefix(heap[id].events, heap'[id].events)

EventsChronological ==
    \A id \in 1..Len(heap) : Chronological(heap[id].events)

\* C11: the events of every session are append-only (no step removes,
\* reorders or modifies an existing event) and their timestamps are
\* non-decreasing along the sequence, concurrent calls on one id included.
C11_EventsChronological == [](EventsChronological) /\ [][EventsAppendOnly]_vars

---------------------------------------------------------------------------
(* The tracker used from one thread by a caller whose calls are logged:
   last_call holds the operation, its arguments and what it returned
   (state: the object id, 0 for None). *)

Call(op, session_id, metadata, state, exported) ==
    [op |-> op, session_id |-> session_id, metadata |-> metadata,
     state |-> state, exported |-> exported]

NotExported == [found |-> FALSE, payload |-> <<>>]

CallFrame == UNCHANGED <<snapshot, turn_log, thr, driftVars, chatVars, anomalyVars, shiftVars, causalVars, redactVars, configVars, entryVars>>

CallStartSession ==
    /\ nops < MaxOps
    /\ \E sid \in SessionIds, md \in MetaChoices :
         LET r == start_session(sessions, heap, sid, md, clock)
         IN  /\ sessions' = r.sessions
             /\ heap' = r.heap
             /\ ret' = r.ret
             /\ last_call' = Call("start_session", sid, md, r.ret, NotExported)
    /\ nops' = nops + 1
    /\ clock_seen' = TRUE
    /\ UNCHANGED clock
    /\ CallFrame

CallRecordTurn ==
    /\ nops < MaxOps
    /\ \E sid \in SessionIds, t \in TurnInputs :
       \E now \in (IF dict_has(sessions, sid) THEN {clock} ELSE {clock, clock + 1}) :
         LET r == record_turn(sessions, heap, sid, t.input_tokens, t.output_tokens,
                              t.metadata, clock, now)
         IN  /\ sessions' = r.sessions
             /\ heap' = r.heap
             /\ ret' = r.ret
             /\ clock' = now
             /\ last_call' = Call("record_turn", sid, t.metadata, r.ret, NotExported)
    /\ nops' = nops + 1
    /\ clock_seen' = TRUE
    /\ CallFrame

CallEndSession ==
    /\ nops < MaxOps
    /\ \E sid \in SessionIds, reason \in Reasons :
         LET r == end_session(sessions, heap, sid, reason, clock)
         IN  /\ sessions' = r.sessions
             /\ heap' = r.heap
             /\ ret' = r.ret
             /\ clock_seen' = (clock_seen \/ r.ret # 0)
             /\ last_call' = Call("end_session", sid, EmptyMeta, r.ret, NotExported)
    /\ nops' = nops + 1
    /\ UNCHANGED clock
    /\ CallFrame

CallGetSessionState ==
    /\ nops < MaxOps
    /\ \E sid \in SessionIds :
         /\ ret' = get_session_state(sessions, sid)
         /\ last_call' = Call("get_session_state", sid, EmptyMeta,
                              get_session_state(sessions, sid), NotExported)
    /\ nops' = nops + 1
    /\ UNCHANGED <<sessions, heap, clock, clock_seen>>
    /\ CallFrame

CallExportForDatadog ==
    /\ nops < MaxOps
    /\ \E sid \in SessionIds :
         last_call' = Call("export_for_datadog", sid, EmptyMeta, 0,
                           export_for_datadog(sessions, heap, sid))
    /\ nops' = nops + 1
    /\ UNCHANGED <<sessions, heap, clock, clock_seen, ret>>
    /\ CallFrame

NextTrackerCalls ==
    \/ Tick
    \/ CallStartSession
    \/ CallRecordTurn
    \/ CallEndSession
    \/ CallGetSessionState
    \/ CallExportForDatadog

SpecTrackerCalls == InitTracker /\ [][NextTrackerCalls]_vars

---------------------------------------------------------------------------
(* Properties of the tracker's calls, one at a time *)

\* the step is a call of operation op
CallStep(op) == nops' = nops + 1 /\ last_call'.op = op

Counters(st) == <<st.created_at, st.turn_count, st.total_input_tokens, st.total_output_tokens>>

C12_RegistryKeeps ==
    \A sid \in SessionIds :
        Registered(sid) => get_session_state(sessions', sid) = get_session_state(sessions, sid)

C12_EndSessionKeeps ==
    (CallStep("end_session") /\ Registered(last_call'.session_id)) =>
        LET sid == last_call'.session_id
            id == get_session_state(sessions, sid)
        IN  /\ last_call'.state = id
            /\ get_session_state(sessions', sid) = id
            /\ Counters(heap'[id]) = Counters(heap[id])
            /\ heap'[id].metadata = heap[id].metadata
            /\ Len(heap'[id].events) = Len(heap[id].events) + 1
            /\ IsPrefix(heap[id].events, heap'[id].events)
            /\ heap'[id].events[Len(heap'[id].events)].event_type = "session_ended"

\* C12: no tracker call removes a session: a registered id stays registered
\* with the same state object after start_session, record_turn and
\* end_session; end_session(id) returns that state, leaves its counters as
\* they were and appends one session_ended event, and the state stays
\* queryable.
C12_NeverRemoved == [][C12_RegistryKeeps /\ C12_EndSessionKeeps]_vars

\* end_session has just returned the state of a session with recorded turns
C12_Witness ==
    /\ last_call.op = "end_session"
    /\ last_call.state # 0
    /\ get_session_state(sessions, last_call.session_id) = last_call.state
    /\ heap[last_call.state].turn_count > 0
    /\ heap[last_call.state].events[Len(heap[last_call.state].events)].event_type = "session_ended"

NotFoundOps == {"end_session", "get_session_state", "export_for_datadog"}

\* C13: end_session, get_session_state and export_for_datadog on an id that
\* is not registered return None and leave the registry and every
\* SessionState as they were (no state is created for the id).
C13_NotFound ==
    [][ \A op \in NotFoundOps :
          (CallStep(op) /\ ~Registered(last_call'.session_id)) =>
              /\ last_call'.state = 0
              /\ ~last_call'.exported.found
              /\ sessions' = sessions
              /\ heap' = heap ]_vars

\* a not-found call has returned None while another session is registered
C13_Witness ==
    /\ last_call.op \in NotFoundOps
    /\ last_call.state = 0
    /\ ~last_call.exported.found
    /\ ~Registered(last_call.session_id)
    /\ \E sid \in SessionIds : Registered(sid) /\ StateOf(sid).turn_count > 0

C14_Existing ==
    (CallStep("start_session") /\ Registered(last_call'.session_id)) =>
        LET sid == last_call'.session_id
            id == get_session_state(sessions, sid)
        IN  /\ sessions' = sessions
            /\ Len(heap') = Len(heap)
            /\ last_call'.state = id
            /\ Counters(heap'[id]) = Counters(heap[id])
            /\ heap'[id].last_activity = clock
            /\ \A k \in MetaKeys :
                 heap'[id].metadata[k] = IF last_call'.metadata[k] # NoValue
                                         THEN last_call'.metadata[k]
                                         ELSE heap[id].metadata[k]
            /\ heap'[id].events = Append(heap[id].events,
                   SessionEvent(clock, "session_started", [metadata |-> last_call'.metadata]))
            /\ \A other \in 1..Len(heap) : other # id => heap'[other] = heap[other]

C14_Absent ==
    (CallStep("start_session") /\ ~Registered(last_call'.session_id)) =>
        LET sid == last_call'.session_id
            id == last_call'.state
        IN  /\ Len(heap') = Len(heap) + 1
            /\ id = Len(heap')
            /\ get_session_state(sessions', sid) = id
            /\ heap'[id].created_at = clock
            /\ heap'[id].last_activity = clock
            /\ Counters(heap'[id]) = <<clock, 0, 0, 0>>
            /\ heap'[id].metadata = last_call'.metadata
            /\ heap'[id].events =
                   <<SessionEvent(clock, "session_started", [metadata |-> last_call'.metadata])>>
            /\ \A other \in 1..Len(heap) : heap'[other] = heap[other]

\* C14: start_session creates the state only if the id is absent; on an
\* existing id it keeps created_at, turn_count and both token counters, sets
\* last_activity, merges the given metadata over the existing one (given keys
\* overwrite, other keys are kept), and in both cases appends exactly one
\* session_started event.
C14_FirstWriteWins == [][C14_Existing /\ C14_Absent]_vars

\* start_session has returned an existing session that has a turn, was
\* created earlier, and kept a metadata key the call did not give
C14_Witness ==
    /\ last_call.op = "start_session"
    /\ last_call.state # 0
    /\ heap[last_call.state].turn_count > 0
    /\ heap[last_call.state].created_at < heap[last_call.state].last_activity
    /\ last_call.metadata = [model |-> "gemini", environment |-> NoValue]
    /\ heap[last_call.state].metadata = [model |-> "gemini", environment |-> "dev"]

---------------------------------------------------------------------------
(* SemanticShiftEngine.  _history and _distances map a key to a deque once
   the key has been seen; distances are fixed-point numbers in units of
   1/ScoreScale. *)

ShiftEmbeddings == { <<>>, <<3>>, <<-1>>, <<0, 4>> }
\* reference_embedding: None, or a vector
NoReference == [given |-> FALSE, value |-> <<>>]
References == { NoReference, [given |-> TRUE, value |-> <<0>>] }

\* _l2_distance: 0.0 on a dimension mismatch or an empty vector
l2_distance(a, b) ==
    IF Len(a) # Len(b) \/ Len(a) = 0 THEN 0
    ELSE ScaledSqrt(SumSeq([i \in 1..Len(a) |-> (a[i] - b[i]) * (a[i] - b[i])]))

RECURSIVE MaxSeq(_)
\* max(xs) of a non-empty sequence
MaxSeq(xs) == IF Len(xs) = 1 THEN xs[1] ELSE Max(Head(xs), MaxSeq(Tail(xs)))

\* sum(xs) / float(len(xs)) of a non-empty sequence
MeanSeq(xs) == SumSeq(xs) \div Len(xs)

\* SemanticShiftEngine.__init__
new_engine(window_size) ==
    [ window_size |-> Max(1, window_size),
      history |-> [k \in ShiftKeys |-> NoDeque],
      distances |-> [k \in ShiftKeys |-> NoDeque] ]

\* _get_history / _get_distance_history: the deque of the key, created empty if absent
get_history(deques, key) ==
    IF deques[key].present THEN deques
    ELSE [deques EXCEPT ![key] = [present |-> TRUE, items |-> <<>>]]

SemanticShiftSnapshot(key, window_size, last_distance, mean_distance, max_distance) ==
    [ found |-> TRUE, key |-> key, window_size |-> window_size,
      last_distance |-> last_distance, mean_distance |-> mean_distance,
      max_distance |-> max_distance ]

\* update that measures the distance to the oldest retained embedding
update_against_oldest(eng, key, embedding, reference_embedding) ==
    LET hist == get_history(eng.history, key)
        dists == get_history(eng.distances, key)
        history == hist[key].items
        last_distance ==
            IF ~reference_embedding.given
            THEN (IF history = <<>> THEN 0 ELSE l2_distance(embedding, history[1]))
            ELSE l2_distance(embedding, reference_embedding.value)
        dist_history == deque_append(dists[key].items, last_distance, eng.window_size)
        new_history == deque_append(history, embedding, eng.window_size)
    IN  [ engine |-> [eng EXCEPT !.history = [hist EXCEPT ![key].items = new_history],
                                 !.distances = [dists EXCEPT ![key].items = dist_history]],
          distance |-> last_distance,
          snapshot |-> SemanticShiftSnapshot(key, Len(new_history), last_distance,
                                             MeanSeq(dist_history), MaxSeq(dist_history)) ]

\* update that appends the embedding to the history before it measures the distance
update_append_first(eng, key, embedding, reference_embedding) ==
    LET hist == get_history(eng.history, key)
        dists == get_history(eng.distances, key)
        new_history == deque_append(hist[key].items, embedding, eng.window_size)
        last_distance ==
            IF ~reference_embedding.given
            THEN l2_distance(embedding, new_history[Len(new_history)])
            ELSE l2_distance(embedding, reference_embedding.value)
        dist_history == deque_append(dists[key].items, last_distance, eng.window_size)
    IN  [ engine |-> [eng EXCEPT !.history = [hist EXCEPT ![key].items = new_history],
                                 !.distances = [dists EXCEPT ![key].items = dist_history]],
          distance |-> last_distance,
          snapshot |-> SemanticShiftSnapshot(key, Len(new_history), last_distance,
                                             MeanSeq(dist_history), MaxSeq(dist_history)) ]

\* update: the whole call
update(eng, key, embedding, reference_embedding) ==
    LET hist == get_history(eng.history, key)
        dists == get_history(eng.distances, key)
        history == hist[key].items
        last_distance ==
            IF ~reference_embedding.given
            THEN (IF history = <<>> THEN 0 ELSE l2_distance(embedding, history[Len(history)]))
            ELSE l2_distance(embedding, reference_embedding.value)
        dist_history == deque_append(dists[key].items, last_distance, eng.window_size)
        new_history == deque_append(history, embedding, eng.window_size)
    IN  [ engine |-> [eng EXCEPT !.history = [hist EXCEPT ![key].items = new_history],
                                 !.distances = [dists EXCEPT ![key].items = dist_history]],
          distance |-> last_distance,
          snapshot |-> SemanticShiftSnapshot(key, Len(new_history), last_distance,
                                             MeanSeq(dist_history), MaxSeq(dist_history)) ]

\* get_snapshot that fetches the deques with _get_history / _get_distance_history
get_snapshot_creating(eng, key) ==
    LET hist == get_history(eng.history, key)
        dists == get_history(eng.distances, key)
        created == [eng EXCEPT !.history = hist, !.distances = dists]
    IN  IF hist[key].items = <<>> \/ dists[key].items = <<>>
        THEN [engine |-> created, snapshot |-> NoSnapshot]
        ELSE [ engine |-> created,
               snapshot |-> SemanticShiftSnapshot(key, Len(hist[key].items),
                                dists[key].items[Len(dists[key].items)],
                                MeanSeq(dists[key].items), MaxSeq(dists[key].items)) ]

\* get_snapshot: None when either deque is absent or empty; the engine is not written
get_snapshot(eng, key) ==
    LET history == eng.history[key]
        dist_history == eng.distances[key]
    IN  IF history.items = <<>> \/ dist_history.items = <<>>
        THEN [engine |-> eng, snapshot |-> NoSnapshot]
        ELSE [ engine |-> eng,
               snapshot |-> SemanticShiftSnapshot(key, Len(history.items),
                                dist_history.items[Len(dist_history.items)],
                                MeanSeq(dist_history.items), MaxSeq(dist_history.items)) ]

InitShift ==
    /\ CausalIdle
    /\ RedactIdle
    /\ ConfigIdle
    /\ EntryIdle
    /\ TrackerIdle
    /\ DriftIdle
    /\ ChatIdle
    /\ AnomalyIdle
    /\ CallIdle
    /\ \E window_size \in 0..MaxShiftWindow : shift = new_engine(window_size)
    /\ shift_log = [k \in ShiftKeys |-> <<>>]
    /\ shift_ret = [op |-> "none", key |-> "", snapshot |-> NoSnapshot]

ShiftFrame == UNCHANGED <<trackerVars, driftVars, chatVars, anomalyVars, callVars, causalVars, redactVars, configVars, entryVars>>

NumUpdates == SumSeq([i \in 1..2 |-> Len(shift_log[IF i = 1 THEN "p" ELSE "q"])])

Update ==
    /\ NumUpdates < MaxUpdates
    /\ \E key \in ShiftKeys, embedding \in ShiftEmbeddings, reference \in References :
         LET r == update(shift, key, embedding, reference)
         IN  /\ shift' = r.engine
             /\ shift_log' = [shift_log EXCEPT ![key] =
                    Append(@, [embedding |-> embedding, reference |-> reference,
                               distance |-> r.distance, snapshot |-> r.snapshot])]
             /\ shift_ret' = [op |-> "update", key |-> key, snapshot |-> r.snapshot]
    /\ ShiftFrame

GetSnapshot ==
    /\ \E key \in ShiftKeys :
         LET r == get_snapshot(shift, key)
         IN  /\ shift' = r.engine
             /\ shift_ret' = [op |-> "get_snapshot", key |-> key, snapshot |-> r.snapshot]
    /\ UNCHANGED shift_log
    /\ ShiftFrame

NextShift ==
    \/ Update
    \/ GetSnapshot

SpecShift == InitShift /\ [][NextShift]_vars

---------------------------------------------------------------------------
(* Properties of the SemanticShiftEngine *)

EmbeddingsOf(log) == [i \in 1..Len(log) |-> log[i].embedding]
DistancesOf(log) == [i \in 1..Len(log) |-> log[i].distance]

\* C15: an update without reference embedding returns last_distance 0.0 when
\* it is the first update on its key, and when its embedding is identical to
\* the embedding of the preceding update on the same key.
C15_ZeroDistance ==
    \A key \in ShiftKeys :
        \A i \in 1..Len(shift_log[key]) :
            LET u == shift_log[key][i]
            IN  ~u.reference.given =>
                    /\ i = 1 => u.snapshot.last_distance = 0
                    /\ (i > 1 /\ u.embedding = shift_log[key][i - 1].embedding) =>
                           u.snapshot.last_distance = 0

\* on one key: an update at a positive distance, then the same embedding again
C15_Witness ==
    \E key \in ShiftKeys :
        /\ Len(shift_log[key]) = 3
        /\ shift.window_size >= 2
        /\ \A i \in 1..3 : ~shift_log[key][i].reference.given
        /\ shift_log[key][2].snapshot.last_distance > 0
        /\ shift_log[key][3].embedding = shift_log[key][2].embedding
        /\ shift_log[key][3].embedding # <<>>
        /\ shift_log[key][3].snapshot.last_distance = 0

C16_Windows ==
    \A key \in ShiftKeys :
        LET log == shift_log[key]
            n == Len(log)
            k == Min(n, shift.window_size)
        IN  /\ shift.history[key].items = LastK(EmbeddingsOf(log), k)
            /\ shift.distances[key].items = LastK(DistancesOf(log), k)
            /\ Len(shift.history[key].items) = k
            /\ Len(shift.distances[key].items) = k
            /\ n > 0 =>
                 /\ log[n].snapshot.window_size = k
                 /\ log[n].snapshot.mean_distance = MeanSeq(LastK(DistancesOf(log), k))
                 /\ log[n].snapshot.max_distance = MaxSeq(LastK(DistancesOf(log), k))

C16_OtherKeysKept ==
    \A key \in ShiftKeys :
        shift_log'[key] = shift_log[key] =>
            /\ shift'.history[key].items = shift.history[key].items
            /\ shift'.distances[key].items = shift.distances[key].items

\* C16: after n updates on a key with effective window W, the embedding FIFO
\* and the distance FIFO of the key both hold the last min(n, W) embeddings
\* and distances in call order, the returned mean_distance and max_distance
\* are taken over those retained distances, and an update on one key leaves
\* the FIFOs of every other key as they were.
C16_ShiftWindows == [](C16_Windows) /\ [][C16_OtherKeysKept]_vars

\* a key updated more often than the window holds, its oldest distance
\* evicted, while the other key holds an entry
C16_Witness ==
    \E key \in ShiftKeys, other \in ShiftKeys :
        /\ other # key
        /\ Len(shift_log[key]) > shift.window_size
        /\ shift_log[key][1].distance = 0
        /\ shift.distances[key].items[1] > 0
        /\ Len(shift_log[other]) = 1

\* C17: get_snapshot writes nothing (known keys and every FIFO stay as they
\* were, no entry is created for an unknown key), returns None for a key
\* never updated, and for an updated key returns the last, mean and max
\* distance and the window_size that the latest update on the key returned.
C17_SnapshotReadOnly ==
    [][ (shift_ret'.op = "get_snapshot" /\ shift_log' = shift_log) =>
            LET key == shift_ret'.key
                log == shift_log[key]
            IN  /\ shift' = shift
                /\ log = <<>> => shift_ret'.snapshot = NoSnapshot
                /\ log # <<>> => shift_ret'.snapshot = log[Len(log)].snapshot ]_vars

\* get_snapshot has returned the snapshot of a key updated twice, while the
\* other key is unknown to the engine
C17_Witness ==
    /\ shift_ret.op = "get_snapshot"
    /\ shift_ret.snapshot.found
    /\ Len(shift_log[shift_ret.key]) >= 2
    /\ shift_ret.snapshot.max_distance > shift_ret.snapshot.last_distance
    /\ \E other \in ShiftKeys : other # shift_ret.key /\ ~shift.history[other].present

---------------------------------------------------------------------------
(* NotearsLiteCausalEngine.  Series values are integers; standardized
   values, sums, penalties, thresholds and weights are fixed-point numbers in
   units of 1/ScoreScale. *)

\* the keys of data, in insertion order
VariableNames == <<"a", "b", "c">>
NameSet == {VariableNames[i] : i \in 1..Len(VariableNames)}
SeriesChoices == { <<>>, <<1, 2, 3>>, <<3, 2, 1>>, <<1, 3, 2>>, <<2, 2, 2>>, <<1, 2>> }
\* max_parents_per_node: None, or an integer
NoLimit == [given |-> FALSE, value |-> 0]
ParentLimits == {NoLimit} \cup {[given |-> TRUE, value |-> k] : k \in 0..MaxParents}
\* min_weight_threshold: 0.05, 0.0 and 0.6
WeightThresholds == {50, 0, 600}
\* l2_penalty given to the constructor: 1e-3 and -1e-3
PenaltyArgs == {1, -1}

\* the quotient truncated toward zero (b > 0)
TruncDiv(a, b) == IF a >= 0 THEN a \div b ELSE -((-a) \div b)

\* _standardize: (x - mean) / std, with dev = n * (x - mean) and q = n^3 * var
\* it is dev * sqrt(n) / sqrt(q); zeros for a constant series
standardize(xs) ==
    LET n == Len(xs)
        total == SumSeq(xs)
        dev == [i \in 1..n |-> n * xs[i] - total]
        q == SumSeq([i \in 1..n |-> dev[i] * dev[i]])
    IN  IF n = 0 THEN <<>>
        ELSE IF q = 0 THEN [i \in 1..n |-> 0]
        ELSE [i \in 1..n |-> TruncDiv(dev[i] * ScaledSqrt(n) * ScoreScale, ScaledSqrt(q))]

\* _fit_linear: sum_xy / (sum_xx + l2_penalty), 0.0 for unequal or zero lengths
fit_linear(x, y, l2_penalty) ==
    IF Len(x) # Len(y) \/ Len(x) = 0 THEN 0
    ELSE LET sum_xx == SumSeq([i \in 1..Len(x) |-> x[i] * x[i]]) \div ScoreScale
             sum_xy == TruncDiv(SumSeq([i \in 1..Len(x) |-> x[i] * y[i]]), ScoreScale)
             denom == sum_xx + l2_penalty
         IN  IF denom = 0 THEN 0 ELSE TruncDiv(sum_xy * ScoreScale, denom)

CausalEdge(source, target, weight) == [source |-> source, target |-> target, weight |-> weight]

\* lines 82-90 without the "source == target" test
candidate_edges_with_self(standardized, target, min_weight_threshold, l2_penalty) ==
    LET y == standardized[target]
        weight(source) == fit_linear(standardized[source], y, l2_penalty)
        kept(source) ==
            /\ ~(Len(standardized[source]) # Len(y) \/ Len(standardized[source]) = 0)
            /\ Abs(weight(source)) >= min_weight_threshold
        sources == SelectSeq(VariableNames, kept)
    IN  [i \in 1..Len(sources) |-> CausalEdge(sources[i], target, weight(sources[i]))]

\* lines 80-90: the edges into target that pass the threshold, in source order
candidate_edges(standardized, target, min_weight_threshold, l2_penalty) ==
    LET y == standardized[target]
        weight(source) == fit_linear(standardized[source], y, l2_penalty)
        kept(source) ==
            /\ source # target
            /\ ~(Len(standardized[source]) # Len(y) \/ Len(standardized[source]) = 0)
            /\ Abs(weight(source)) >= min_weight_threshold
        sources == SelectSeq(VariableNames, kept)
    IN  [i \in 1..Len(sources) |-> CausalEdge(sources[i], target, weight(sources[i]))]

RECURSIVE InsertEdge(_, _)
\* e, which precedes all of sorted in the original order, goes before the
\* first edge that is not heavier than it
InsertEdge(e, sorted) ==
    IF sorted = <<>> THEN <<e>>
    ELSE IF Abs(Head(sorted).weight) <= Abs(e.weight) THEN <<e>> \o sorted
    ELSE <<Head(sorted)>> \o InsertEdge(e, Tail(sorted))

RECURSIVE SortByAbsWeight(_)
\* edges.sort(key=lambda e: abs(e.weight), reverse=True): stable, heaviest first
SortByAbsWeight(edges) ==
    IF edges = <<>> THEN <<>> ELSE InsertEdge(Head(edges), SortByAbsWeight(Tail(edges)))

\* lines 92-94: the truncation is applied when the limit is given and positive
limit_parents(edges, max_parents_per_node) ==
    IF max_parents_per_node.given /\ max_parents_per_node.value > 0
    THEN SubSeq(SortByAbsWeight(edges), 1, Min(max_parents_per_node.value, Len(edges)))
    ELSE edges

RECURSIVE EdgesFrom(_, _, _, _, _)
\* the loop of line 79 from the i-th variable on
EdgesFrom(i, standardized, max_parents_per_node, min_weight_threshold, l2_penalty) ==
    IF i > Len(VariableNames) THEN <<>>
    ELSE limit_parents(candidate_edges(standardized, VariableNames[i],
                                       min_weight_threshold, l2_penalty),
                       max_parents_per_node)
         \o EdgesFrom(i + 1, standardized, max_parents_per_node, min_weight_threshold, l2_penalty)

\* infer_causal_graph: the edges of the returned CausalGraph
infer_causal_graph(data, max_parents_per_node, min_weight_threshold, l2_penalty) ==
    LET standardized == [name \in NameSet |-> standardize(data[name])]
    IN  EdgesFrom(1, standardized, max_parents_per_node, min_weight_threshold, l2_penalty)

InitCausal ==
    /\ TrackerIdle
    /\ DriftIdle
    /\ ChatIdle
    /\ AnomalyIdle
    /\ CallIdle
    /\ ShiftIdle
    /\ RedactIdle
    /\ ConfigIdle
    /\ EntryIdle
    /\ \E data \in [NameSet -> SeriesChoices], limit \in ParentLimits,
          threshold \in WeightThresholds, penalty \in PenaltyArgs :
         causal_args = [ given |-> TRUE, data |-> data, max_parents_per_node |-> limit,
                         min_weight_threshold |-> threshold,
                         l2_penalty |-> Max(0, penalty) ]
    /\ causal_graph = NoGraph

InferCausalGraph ==
    /\ ~causal_graph.called
    /\ causal_graph' =
           [ called |-> TRUE,
             edges |-> infer_causal_graph(causal_args.data, causal_args.max_parents_per_node,
                                          causal_args.min_weight_threshold,
                                          causal_args.l2_penalty) ]
    /\ UNCHANGED <<trackerVars, driftVars, chatVars, anomalyVars, callVars, shiftVars, redactVars, configVars, entryVars, causal_args>>

NextCausal == InferCausalGraph

SpecCausal == InitCausal /\ [][NextCausal]_vars

---------------------------------------------------------------------------
(* Properties of the causal engine *)

\* the edges into target, in the order of the graph
Incoming(edges, target) == SelectSeq(edges, LAMBDA e : e.target = target)

\* the edges into target that pass the threshold, before any truncation
Candidates(target) ==
    candidate_edges([name \in NameSet |-> standardize(causal_args.data[name])], target,
                    causal_args.min_weight_threshold, causal_args.l2_penalty)

SeqToSet(xs) == {xs[i] : i \in 1..Len(xs)}

TopK(target, k) ==
    LET incoming == Incoming(causal_graph.edges, target)
        candidates == Candidates(target)
    IN  /\ Len(incoming) <= k
        /\ Len(incoming) = Min(k, Len(candidates))
        /\ SeqToSet(incoming) \subseteq SeqToSet(candidates)
        /\ \A e \in SeqToSet(incoming), c \in SeqToSet(candidates) \ SeqToSet(incoming) :
             Abs(e.weight) >= Abs(c.weight)

\* C18: with max_parents_per_node set to a non-negative integer k, every
\* target of the returned graph has at most k incoming edges, and they are
\* the k edges of largest |weight| among its edges that pass
\* min_weight_threshold.
C18_TopKParents ==
    (causal_graph.called /\ causal_args.max_parents_per_node.given) =>
        \A target \in NameSet : TopK(target, causal_args.max_parents_per_node.value)

\* C19: the returned graph has no self-edge, at most one edge per ordered
\* (source, target) pair, |weight| >= min_weight_threshold on every edge, and
\* no edge between series of different length or of length zero.
C19_GraphWellFormed ==
    causal_graph.called =>
        LET edges == causal_graph.edges
        IN  /\ \A i \in 1..Len(edges) :
                 /\ edges[i].source # edges[i].target
                 /\ Abs(edges[i].weight) >= causal_args.min_weight_threshold
                 /\ Len(causal_args.data[edges[i].source]) = Len(causal_args.data[edges[i].target])
                 /\ Len(causal_args.data[edges[i].source]) > 0
            /\ \A i, j \in 1..Len(edges) :
                 (edges[i].source = edges[j].source /\ edges[i].target = edges[j].target) => i = j

\* a graph with edges in both directions between two series of three points,
\* the edges of the third series dropped by the threshold
C19_Witness ==
    /\ causal_graph.called
    /\ causal_args.min_weight_threshold = 600
    /\ Len(causal_graph.edges) = 2
    /\ \E i, j \in 1..2 :
         /\ causal_graph.edges[i].source = causal_graph.edges[j].target
         /\ causal_graph.edges[j].source = causal_graph.edges[i].target
         /\ causal_graph.edges[i].weight < 0
    /\ \E name \in NameSet : Len(causal_args.data[name]) = 3 /\
         \A i \in 1..2 : causal_graph.edges[i].source # name /\ causal_graph.edges[i].target # name
    /\ \A name \in NameSet : Len(causal_args.data[name]) = 3

---------------------------------------------------------------------------
(* RedactionFilter with the default RedactionConfig.  A text is a sequence
   of characters; each compiled pattern is a matcher that gives, for a start
   position, the position after the match the regular expression engine
   finds there (leftmost, greedy with backtracking), or 0. *)

Digits == {"0", "1", "2", "3", "4", "5", "6", "7", "8", "9"}
Upper == {"A", "B", "C", "D", "E", "F", "G", "H", "I", "J", "K", "L", "M", "N", "O", "P", "Q", "R", "S", "T", "U", "V", "W", "X", "Y", "Z"}
Lower == {"a", "b", "c", "d", "e", "f", "g", "h", "i", "j", "k", "l", "m", "n", "o", "p", "q", "r", "s", "t", "u", "v", "w", "x", "y", "z"}
Letters == Upper \cup Lower
\* \w
WordChars == Letters \cup Digits \cup {"_"}
\* [A-Za-z0-9._%+-]
LocalChars == Letters \cup Digits \cup {".", "_", "%", "+", "-"}
\* [A-Za-z0-9.-]
DomainChars == Letters \cup Digits \cup {".", "-"}
\* [\d\-\s]
PhoneChars == Digits \cup {"-", " "}
\* [ -]
CardSeparators == {" ", "-"}
\* [A-Z0-9]
IbanChars == Upper \cup Digits

\* RedactionConfig.replacement
replacement == <<"[", "R", "E", "D", "A", "C", "T", "E", "D", "]">>

\* the character at position i, "" outside the text
At(text, i) == IF i \in 1..Len(text) THEN text[i] ELSE ""

RECURSIVE RunEnd(_, _, _)
\* the position after the longest run of characters of class that starts at i
RunEnd(text, i, class) ==
    IF At(text, i) \in class THEN RunEnd(text, i + 1, class) ELSE i

\* \b before position i
Boundary(text, i) == (At(text, i - 1) \in WordChars) # (At(text, i) \in WordChars)

MaxOf(S) == CHOOSE x \in S : \A y \in S : y <= x

\* [A-Za-z0-9._%+-]+@[A-Za-z0-9.-]+\.[A-Za-z]{2,}
match_email(text, i) ==
    LET at == RunEnd(text, i, LocalChars)
        dom == at + 1
        dom_end == RunEnd(text, dom, DomainChars)
        dots == {q \in (dom + 1)..(dom_end - 1) :
                    /\ text[q] = "."
                    /\ At(text, q + 1) \in Letters
                    /\ At(text, q + 2) \in Letters}
    IN  IF at > i /\ At(text, at) = "@" /\ dots # {}
        THEN RunEnd(text, MaxOf(dots) + 1, Letters)
        ELSE 0

\* \+?\d[\d\-\s]{6,}\d
match_phone(text, i) ==
    LET first == IF At(text, i) = "+" THEN i + 1 ELSE i
        run_end == RunEnd(text, first + 1, PhoneChars)
        lasts == {j \in (first + 7)..(run_end - 1) : text[j] \in Digits}
    IN  IF At(text, first) \in Digits /\ lasts # {} THEN MaxOf(lasts) + 1 ELSE 0

RECURSIVE IpGroups(_, _, _)
\* k groups \d{1,3} from position i, joined by dots: the position after the last, or 0
IpGroups(text, i, k) ==
    LET e == RunEnd(text, i, Digits)
    IN  IF e = i \/ e - i > 3 THEN 0
        ELSE IF k = 1 THEN e
        ELSE IF At(text, e) = "." THEN IpGroups(text, e + 1, k - 1)
        ELSE 0

\* \b\d{1,3}(?:\.\d{1,3}){3}\b
match_ip(text, i) ==
    LET e == IpGroups(text, i, 4)
    IN  IF Boundary(text, i) /\ e # 0 /\ At(text, e) \notin WordChars THEN e ELSE 0

RECURSIVE CardDigits(_, _, _)
\* the positions of up to limit digits from position i on, each followed by
\* any run of separators
CardDigits(text, i, limit) ==
    IF limit = 0 \/ At(text, i) \notin Digits THEN <<>>
    ELSE <<i>> \o CardDigits(text, RunEnd(text, i + 1, CardSeparators), limit - 1)

\* \b(?:\d[ -]*?){13,19}\b: thirteen digits with the separators between them,
\* then up to six digits that follow directly (past the minimum the engine
\* leaves the loop before it lets a lazy separator grow), then \b
match_credit_card(text, i) ==
    LET digits == CardDigits(text, i, 13)
        e == IF Len(digits) < 13 THEN 0
             ELSE Min(RunEnd(text, digits[13] + 1, Digits), digits[13] + 7)
    IN  IF Boundary(text, i) /\ e # 0 /\ At(text, e) \notin WordChars THEN e ELSE 0

\* \b[A-Z]{2}\d{2}[A-Z0-9]{10,30}\b
match_iban(text, i) ==
    LET e == RunEnd(text, i + 4, IbanChars)
    IN  IF /\ Boundary(text, i)
           /\ At(text, i) \in Upper /\ At(text, i + 1) \in Upper
           /\ At(text, i + 2) \in Digits /\ At(text, i + 3) \in Digits
           /\ e - (i + 4) >= 10 /\ e - (i + 4) <= 30
           /\ At(text, e) \notin WordChars
        THEN e ELSE 0

\* self._patterns, in the order _compile_patterns appends them
patterns == <<"email", "phone", "ip", "credit_card", "iban">>

match(pattern, text, i) ==
    CASE pattern = "email" -> match_email(text, i)
      [] pattern = "phone" -> match_phone(text, i)
      [] pattern = "ip" -> match_ip(text, i)
      [] pattern = "credit_card" -> match_credit_card(text, i)
      [] OTHER -> match_iban(text, i)

RECURSIVE SubFrom(_, _, _)
\* pattern.sub from position i on: every non-overlapping match, left to right
SubFrom(pattern, text, i) ==
    IF i > Len(text) THEN <<>>
    ELSE LET e == match(pattern, text, i)
         IN  IF e # 0 THEN replacement \o SubFrom(pattern, text, e)
             ELSE <<text[i]>> \o SubFrom(pattern, text, i + 1)

\* pattern.sub(replacement, text, count=1): only the first match
sub_first(pattern, text) ==
    LET starts == {i \in 1..Len(text) : match(pattern, text, i) # 0}
        i == CHOOSE x \in starts : \A y \in starts : x <= y
    IN  IF starts = {} THEN text
        ELSE SubSeq(text, 1, i - 1) \o replacement
             \o SubSeq(text, match(pattern, text, i), Len(text))

\* pattern.sub(replacement, text)
sub(pattern, text) == SubFrom(pattern, text, 1)

RECURSIVE RedactFrom(_, _)
\* the loop of redact_text from the k-th pattern on
RedactFrom(k, text) ==
    IF k > Len(patterns) THEN text ELSE RedactFrom(k + 1, sub(patterns[k], text))

redact_text(text) == RedactFrom(1, text)

Str(text) == [kind |-> "str", text |-> text]
Other(value) == [kind |-> "other", value |-> value]
List(items) == [kind |-> "list", items |-> items]
Tuple(items) == [kind |-> "tuple", items |-> items]
Dict(items) == [kind |-> "dict", items |-> items]

RECURSIVE redact_payload_tuple_as_list(_)
\* redact_payload that returns the items of a tuple as a list
redact_payload_tuple_as_list(x) ==
    CASE x.kind = "str" -> Str(redact_text(x.text))
      [] x.kind = "dict" ->
            Dict([i \in 1..Len(x.items) |->
                    [key |-> x.items[i].key,
                     value |-> redact_payload_tuple_as_list(x.items[i].value)]])
      [] x.kind = "list" ->
            List([i \in 1..Len(x.items) |-> redact_payload_tuple_as_list(x.items[i])])
      [] x.kind = "tuple" ->
            List([i \in 1..Len(x.items) |-> redact_payload_tuple_as_list(x.items[i])])
      [] OTHER -> x

RECURSIVE redact_payload(_)
\* redact_payload: strings are redacted, dict values, list items and tuple
\* items recursively; keys and any other value are returned as they are
redact_payload(x) ==
    CASE x.kind = "str" -> Str(redact_text(x.text))
      [] x.kind = "dict" ->
            Dict([i \in 1..Len(x.items) |->
                    [key |-> x.items[i].key, value |-> redact_payload(x.items[i].value)]])
      [] x.kind = "list" -> List([i \in 1..Len(x.items) |-> redact_payload(x.items[i])])
      [] x.kind = "tuple" -> Tuple([i \in 1..Len(x.items) |-> redact_payload(x.items[i])])
      [] OTHER -> x

\* the pieces texts are put together from: an e-mail address, an IP address,
\* a phone number, an IBAN, and single characters
Pieces ==
    { <<"a", "@", "b", ".", "c", "o">>,
      <<"1", ".", "2", ".", "3", ".", "4">>,
      <<"+", "1", "2", " ", "3", "4", "5", "-", "6", "7", "8">>,
      <<"D", "E", "8", "9", "A", "B", "C", "D", "E", "F", "G", "H", "I", "J">>,
      <<"x">>, <<"1">>, <<" ">> }

RECURSIVE Concat(_)
Concat(parts) == IF parts = <<>> THEN <<>> ELSE Head(parts) \o Concat(Tail(parts))

Texts == {Concat(parts) : parts \in UNION {[1..n -> Pieces] : n \in 1..MaxPieces}}

\* the payload object after redact_payload(payload) returned: lines 59-72
\* build new containers and assign to nothing the payload holds
payload_after_redact(x) == x

\* a key that is itself an e-mail address
EmailKey == <<"k", "@", "b", ".", "c", "o">>

\* payloads around one text: the string, a list, a tuple, a dict with a nested
\* list, and a dict under a sensitive key
Shapes(text) ==
    { Str(text),
      List(<<Str(text), Other(7)>>),
      Tuple(<<Str(text)>>),
      Dict(<<[key |-> "user", value |-> Str(text)],
             [key |-> "meta", value |-> List(<<Other(0), Tuple(<<Str(text)>>)>>)]>>),
      Dict(<<[key |-> EmailKey, value |-> Tuple(<<Other(EmailKey), Str(text)>>)]>>) }

InitRedact ==
    /\ TrackerIdle
    /\ DriftIdle
    /\ ChatIdle
    /\ AnomalyIdle
    /\ CallIdle
    /\ ShiftIdle
    /\ CausalIdle
    /\ ConfigIdle
    /\ EntryIdle
    /\ \E text \in Texts : redact_input \in Shapes(text)
    /\ redacted = <<>>

\* redact_payload applied to the payload, then to its own result
RedactPayload ==
    /\ Len(redacted) < MaxApplications
    /\ redacted' = Append(redacted,
           redact_payload(IF redacted = <<>> THEN redact_input ELSE redacted[Len(redacted)]))
    /\ redact_input' = IF redacted = <<>> THEN payload_after_redact(redact_input)
                        ELSE redact_input
    /\ UNCHANGED <<trackerVars, driftVars, chatVars, anomalyVars, callVars, shiftVars,
                   causalVars, configVars, entryVars>>

NextRedact == RedactPayload

SpecRedact == InitRedact /\ [][NextRedact]_vars

---------------------------------------------------------------------------
(* Properties of the redaction filter *)

\* C20: redaction is idempotent on nested payloads with the default
\* configuration: redact_payload(redact_payload(x)) = redact_payload(x).
C20_Idempotent ==
    \A k \in 2..Len(redacted) : redacted[k] = redacted[1]

\* a dict payload whose text held two sensitive values, redacted twice
C20_Witness ==
    /\ Len(redacted) >= 2
    /\ redact_input.kind = "dict"
    /\ Len(redact_input.items) = 2
    /\ redacted[1] # redact_input
    /\ redacted[1].items[1].value.text = replacement \o <<" ">> \o replacement

RECURSIVE SameStructure(_, _)
\* y has the nesting, keys, lengths and order of x, and differs from x in
\* string leaves only
SameStructure(x, y) ==
    /\ y.kind = x.kind
    /\ CASE x.kind = "str" -> TRUE
         [] x.kind = "dict" ->
               /\ Len(y.items) = Len(x.items)
               /\ \A i \in 1..Len(x.items) :
                     /\ y.items[i].key = x.items[i].key
                     /\ SameStructure(x.items[i].value, y.items[i].value)
         [] x.kind \in {"list", "tuple"} ->
               /\ Len(y.items) = Len(x.items)
               /\ \A i \in 1..Len(x.items) : SameStructure(x.items[i], y.items[i])
         [] OTHER -> y = x

C21_Structure == redacted # <<>> => SameStructure(redact_input, redacted[1])

C21_InputKept == redacted = <<>> => redact_input' = redact_input

\* C21: redact_payload preserves structure and is pure: the result has the
\* nesting, the mapping keys, the sequence lengths and the order of the input,
\* only string leaves may differ, other scalars are returned unchanged, and
\* the input payload is not mutated.
C21_StructurePreserved == [](C21_Structure) /\ [][C21_InputKept]_vars

\* a dict under a sensitive key whose tuple holds a scalar and a text that was redacted
C21_Witness ==
    /\ redacted # <<>>
    /\ redact_input.kind = "dict"
    /\ Len(redact_input.items) = 1
    /\ redacted[1].items[1].value.items[1] = Other(EmailKey)
    /\ redacted[1].items[1].value.items[2] # redact_input.items[1].value.items[2]

---------------------------------------------------------------------------
(* Configuration errors: HybridEmbeddingDriftDetector.__init__ and
   CaseGenerator.create_case called with valid and invalid arguments *)

\* window sizes a caller may pass, valid and invalid
WindowSizeArgs == {-1, 0, 1, 2}
\* severities a caller may pass: the allowed ones, a priority and an unknown word
SeverityArgs == allowed_severity \cup {"P1", "urgent"}

InitConfig ==
    /\ AnomalyIdle
    /\ CallIdle /\ ShiftIdle /\ CausalIdle /\ RedactIdle /\ EntryIdle
    /\ TrackerIdle
    /\ ChatIdle
    /\ DriftIdle
    /\ config = NoConfig

ConfigFrame == UNCHANGED <<trackerVars, dthr, chatVars, anomalyVars, callVars, shiftVars,
                           causalVars, redactVars, entryVars>>

\* HybridEmbeddingDriftDetector(window_size, drift_threshold): lines 44-48
\* raise nothing and return the detector
ConstructDetector ==
    /\ \E window_size \in WindowSizeArgs, drift_threshold \in ThresholdArgs :
         /\ detector' = new_detector(window_size, drift_threshold)
         /\ config' = [op |-> "construct", window_size |-> window_size,
                       drift_threshold |-> drift_threshold, raised |-> FALSE]
    /\ drift_result' = [kind |-> "none"]
    /\ drift_calls' = <<>>
    /\ ConfigFrame

\* the detector that was constructed is used
UseDetector ==
    /\ config # NoConfig
    /\ config.op = "construct"
    /\ ~config.raised
    /\ Len(drift_calls) < MaxCalls
    /\ \E v \in VertexEmbeddings, m \in MinilmEmbeddings :
         LET r == update_and_score(detector, v, m)
         IN  /\ detector' = r.detector
             /\ drift_result' = r.result
             /\ drift_calls' = Append(drift_calls,
                    [vertex |-> v, minilm |-> m, returned |-> r.result.kind = "DriftResult"])
    /\ UNCHANGED config
    /\ ConfigFrame

\* CaseGenerator.create_case(title, description, severity)
CreateCase ==
    /\ \E severity \in SeverityArgs, outcome \in SinkOutcomes :
         LET c == create_case(severity, outcome)
         IN  config' = [op |-> "create_case", severity |-> severity, raised |-> c.raised,
                        error |-> c.error, sent |-> c.sent]
    /\ UNCHANGED <<detector, drift_result, drift_calls>>
    /\ ConfigFrame

NextConfig ==
    \/ ConstructDetector
    \/ UseDetector
    \/ CreateCase

SpecConfig == InitConfig /\ [][NextConfig]_vars

---------------------------------------------------------------------------
(* Properties of the configuration errors *)

C22_Construction ==
    (config.op = "construct" /\ (config.window_size < 1 \/ config.drift_threshold < 0))
        => config.raised

C22_CreateCase ==
    (config.op = "create_case" /\ config.severity \notin allowed_severity)
        => (config.raised /\ config.error = "ValueError" /\ ~config.sent)

\* C22: configuration errors fail fast: constructing a drift detector with
\* drift_threshold < 0 or window_size < 1 fails with an error instead of
\* yielding a usable detector, and create_case with a severity outside the
\* allowed set raises before any request is sent to the sink.
C22_FailFast == C22_Construction /\ C22_CreateCase

---------------------------------------------------------------------------
(* Properties of record_turn and of the turn counter, one call at a time *)

\* the events the step appended to the session sid
AddedEvents(sid) ==
    LET old == IF Registered(sid) THEN StateOf(sid).events ELSE <<>>
        new == heap'[dict_get(sessions', sid)].events
    IN  SubSeq(new, Len(old) + 1, Len(new))

\* the step is a record_turn call on sid
RecordTurnStep(sid) == turn_log'[sid] # turn_log[sid]

C23_Step ==
    \A sid \in SessionIds :
        RecordTurnStep(sid) =>
            LET before == IF Registered(sid) THEN StateOf(sid)
                          ELSE SessionState(sid, clock, EmptyMeta)
                after == heap'[dict_get(sessions', sid)]
                added == AddedEvents(sid)
                last == after.events[Len(after.events)]
                given == turn_log'[sid][Len(turn_log'[sid])]
            IN  /\ IsPrefix(before.events, after.events)
                /\ Cardinality({k \in 1..Len(added) : added[k].event_type = "llm_turn"}) = 1
                /\ last.event_type = "llm_turn"
                /\ last.payload.input_tokens = given[1]
                /\ last.payload.output_tokens = given[2]
                /\ after.total_input_tokens = before.total_input_tokens + Max(0, given[1])
                /\ after.total_output_tokens = before.total_output_tokens + Max(0, given[2])

\* C23: each record_turn appends exactly one llm_turn event as the new last
\* event of the session, and its payload carries input_tokens and
\* output_tokens as supplied (unclamped, possibly negative) although the
\* counters advance by the clamped values.
C23_RawTokensInEvent == [][C23_Step]_vars

\* the last event of a session is an llm_turn with a negative count that the
\* counter did not take
C23_Witness ==
    \E sid \in SessionIds :
        /\ Registered(sid)
        /\ Len(turn_log[sid]) >= 2
        /\ LET st == StateOf(sid)
               last == st.events[Len(st.events)]
           IN  /\ last.event_type = "llm_turn"
               /\ last.payload.input_tokens < 0
               /\ last.payload.output_tokens > 0
               /\ st.total_input_tokens = 10

C24_Step ==
    \A sid \in SessionIds :
        (RecordTurnStep(sid) /\ ~Registered(sid)) =>
            /\ dict_has(sessions', sid)
            /\ LET st == heap'[dict_get(sessions', sid)]
               IN  /\ st.turn_count = 1
                   /\ Len(st.events) = 2
                   /\ st.events[1].event_type = "session_started"
                   /\ st.events[2].event_type = "llm_turn"
                   /\ st.events[1].timestamp = st.created_at
                   /\ st.created_at <= st.events[2].timestamp
                   /\ st.metadata = st.events[2].payload.metadata
                   /\ st.events[1].payload.metadata = st.events[2].payload.metadata

\* C24: record_turn on an absent session id starts the session first:
\* afterwards the session exists with turn_count = 1, its events are exactly
\* [session_started, llm_turn], created_at is not later than the llm_turn
\* timestamp, and the turn's metadata is the session metadata.
C24_ImplicitStart == [][C24_Step]_vars

\* a session made by its first turn, the clock having advanced between the
\* implicit start and the turn
C24_Witness ==
    \E sid \in SessionIds :
        /\ Registered(sid)
        /\ LET st == StateOf(sid)
           IN  /\ st.turn_count = 1
               /\ Len(st.events) = 2
               /\ st.events[1].event_type = "session_started"
               /\ st.events[2].event_type = "llm_turn"
               /\ st.created_at < st.events[2].timestamp
               /\ st.metadata = [model |-> "palm", environment |-> "dev"]

\* the number of llm_turn events
TurnEventCount(events) == Cardinality({k \in 1..Len(events) : events[k].event_type = "llm_turn"})

TurnCounters(st) == <<st.turn_count, st.total_input_tokens, st.total_output_tokens>>

C27_Counted ==
    \A sid \in SessionIds :
        Registered(sid) => StateOf(sid).turn_count = TurnEventCount(StateOf(sid).events)

\* a start_session or end_session call: a call that is no record_turn
C27_StartEndKeep ==
    (nops' = nops + 1 /\ turn_log' = turn_log) =>
        \A sid \in SessionIds :
            /\ Registered(sid) =>
                  TurnCounters(heap'[dict_get(sessions', sid)]) = TurnCounters(StateOf(sid))
            /\ (~Registered(sid) /\ dict_has(sessions', sid)) =>
                  TurnCounters(heap'[dict_get(sessions', sid)]) = <<0, 0, 0>>

\* C27: after any sequence of start_session, record_turn and end_session
\* calls made one at a time, turn_count of every session is the number of its
\* llm_turn events, and start_session and end_session leave turn_count and
\* both token counters unchanged.
C27_TurnCountIsTurnEvents == [](C27_Counted) /\ [][C27_StartEndKeep]_vars

\* a session with one turn between its start and its end
C27_Witness ==
    \E sid \in SessionIds :
        /\ Registered(sid)
        /\ LET st == StateOf(sid)
           IN  /\ Len(st.events) = 3
               /\ st.events[1].event_type = "session_started"
               /\ st.events[2].event_type = "llm_turn"
               /\ st.events[3].event_type = "session_ended"
               /\ st.turn_count = 1
               /\ st.total_input_tokens + st.total_output_tokens > 0

---------------------------------------------------------------------------
(* Properties of the calls that follow end_session *)

Ended(st) == \E k \in 1..Len(st.events) : st.events[k].event_type = "session_ended"

MergedMetadata(old, given) ==
    [k \in MetaKeys |-> IF given[k] # NoValue THEN given[k] ELSE old[k]]

C28_Step ==
    \A op \in {"start_session", "record_turn", "end_session"} :
        (CallStep(op) /\ Registered(last_call'.session_id)
                      /\ Ended(StateOf(last_call'.session_id))) =>
            LET id == get_session_state(sessions, last_call'.session_id)
                before == heap[id]
                after == heap'[id]
                last == after.events[Len(after.events)]
            IN  /\ last_call'.state = id
                /\ get_session_state(sessions', last_call'.session_id) = id
                /\ Len(after.events) = Len(before.events) + 1
                /\ IsPrefix(before.events, after.events)
                /\ last.timestamp = clock
                /\ after.last_activity = clock
                /\ after.created_at = before.created_at
                /\ CASE op = "record_turn" ->
                          /\ last.event_type = "llm_turn"
                          /\ after.turn_count = before.turn_count + 1
                          /\ after.total_input_tokens =
                                 before.total_input_tokens + Max(0, last.payload.input_tokens)
                          /\ after.total_output_tokens =
                                 before.total_output_tokens + Max(0, last.payload.output_tokens)
                          /\ after.metadata = MergedMetadata(before.metadata, last_call'.metadata)
                     [] op = "start_session" ->
                          /\ last.event_type = "session_started"
                          /\ TurnCounters(after) = TurnCounters(before)
                          /\ after.metadata = MergedMetadata(before.metadata, last_call'.metadata)
                     [] OTHER ->
                          /\ last.event_type = "session_ended"
                          /\ TurnCounters(after) = TurnCounters(before)
                          /\ after.metadata = before.metadata

\* C28: end_session is not terminal: a record_turn or start_session after
\* end_session on the same id is accepted, advances the counters or the
\* metadata as usual and appends its llm_turn or session_started event after
\* the session_ended event; end_session may be repeated and appends one more
\* session_ended event each time.
C28_NotTerminal == [][C28_Step]_vars

\* a turn recorded on a session after its end
C28_Witness ==
    /\ last_call.op = "record_turn"
    /\ last_call.state # 0
    /\ LET st == heap[last_call.state]
       IN  /\ Len(st.events) >= 3
           /\ st.events[Len(st.events) - 1].event_type = "session_ended"
           /\ st.events[Len(st.events)].event_type = "llm_turn"
           /\ st.turn_count = 2
           /\ st.total_input_tokens > 0

---------------------------------------------------------------------------
(* Order of reading, measuring and appending in SemanticShiftEngine.update *)

\* C25: update reads the key's most recent stored embedding, computes the
\* distance and only then appends: without a reference the recorded distance
\* is the distance from the new embedding to the embedding of the previous
\* update on that key (0 for the first), with a reference it is the distance
\* to the reference whatever the history holds, and in both cases the new
\* embedding becomes the most recent entry of the history.
C25_DistanceBeforeAppend ==
    \A key \in ShiftKeys :
        LET log == shift_log[key]
        IN  /\ \A k \in 1..Len(log) :
                  /\ log[k].snapshot.last_distance = log[k].distance
                  /\ log[k].distance =
                        IF log[k].reference.given
                        THEN l2_distance(log[k].embedding, log[k].reference.value)
                        ELSE IF k = 1 THEN 0
                        ELSE l2_distance(log[k].embedding, log[k - 1].embedding)
            /\ log # <<>> =>
                  /\ shift.history[key].items = LastK(EmbeddingsOf(log), shift.window_size)
                  /\ shift.distances[key].items = LastK(DistancesOf(log), shift.window_size)

\* a key updated three times: the second update measured a distance to the
\* first embedding, the third one a different distance to its reference
C25_Witness ==
    \E key \in ShiftKeys :
        LET log == shift_log[key]
        IN  /\ Len(log) = 3
            /\ ~log[2].reference.given
            /\ log[2].distance > 0
            /\ log[3].reference.given
            /\ log[3].distance > 0
            /\ log[3].distance # l2_distance(log[3].embedding, log[2].embedding)
            /\ shift.history[key].items[Len(shift.history[key].items)] = log[3].embedding

---------------------------------------------------------------------------
(* Tracked state while the post-processing of a response goes on or stops *)

\* the positions of _post_observability_processing after the session step
AfterSessionStep ==
    {"metrics", "drift", "drift_metric", "drift_event", "drift_case",
     "latency_event", "latency_case", "return"}

TurnCountOf(reg, hp, sid) == IF dict_has(reg, sid) THEN hp[dict_get(reg, sid)].turn_count ELSE 0

\* the session step counts the response once
C26_SessionStep ==
    chat.pc = "record_turn" =>
        /\ TurnCountOf(sessions', heap', chat.session_id) =
               TurnCountOf(sessions, heap, chat.session_id) + 1
        /\ \A sid \in SessionIds \ {chat.session_id} :
               TurnCountOf(sessions', heap', sid) = TurnCountOf(sessions, heap, sid)
        /\ detector' = detector

\* whatever follows, a sink push that fails and an exception that ends the
\* call included, leaves the sessions alone and gives the histories the
\* embeddings of the response once or not at all
C26_LaterSteps ==
    chat.pc \in AfterSessionStep =>
        /\ sessions' = sessions
        /\ heap' = heap
        /\ IF chat.pc = "drift" /\ drift_result'.kind = "DriftResult"
           THEN /\ detector'.vertex_history =
                      LastK(Append(detector.vertex_history, chat.res.vertex), detector.window_size)
                /\ detector'.minilm_history =
                      LastK(Append(detector.minilm_history, chat.res.minilm), detector.window_size)
           ELSE detector' = detector

C26_HistoriesAligned == Len(detector.vertex_history) = Len(detector.minilm_history)

\* C26: a sink push that fails or is abandoned during the post-processing of
\* handle_chat does not corrupt tracked state: wherever the post-processing
\* stops after the session step, the session's turn_count has grown by
\* exactly one for the response, and the two drift histories have equal
\* length and have each received the response's embedding at most once.
C26_StateKeptOnSinkFailure ==
    [](C26_HistoriesAligned) /\ [][C26_SessionStep /\ C26_LaterSteps]_vars

\* the second request of a session ended in a failed case creation, after
\* both of its responses were counted and scored
C26_Witness ==
    /\ chat.pc = "idle"
    /\ chat.outcome.kind = "raised"
    /\ chat.outcome.by = "sink"
    /\ TurnCountOf(sessions, heap, chat.session_id) = 2
    /\ Len(detector.vertex_history) = 2
    /\ Len(detector.minilm_history) = 2
    /\ detector.vertex_history[2] = chat.res.vertex

---------------------------------------------------------------------------
(* The facade's two entry points: handle_chat, with the redaction of the
   request before the backend is called, and handle_chat_stream *)

\* the message texts of a request: plain, and holding an e-mail address
RequestTexts == { <<"h", "i">>, <<"t", "o", " ", "a", "@", "b", ".", "c", "o">> }

SessionIdText(sid) == IF sid = "abc" THEN <<"a", "b", "c">> ELSE <<"x", "y", "z">>

\* req.model_dump(): the messages and the metadata with the session id
RequestPayload(sid, text) ==
    Dict(<<[key |-> "messages", value |-> List(<<Dict(<<[key |-> "content", value |-> Str(text)]>>)>>)],
           [key |-> "metadata", value |-> Dict(<<[key |-> "session_id",
                                                  value |-> Str(SessionIdText(sid))]>>)]>>)

\* what an entry point finds when a request arrives
Entry(kind) ==
    [kind |-> kind, nops |-> nops, turn_log |-> turn_log, drift_calls |-> Len(drift_calls),
     sessions |-> sessions, heap |-> heap, detector |-> detector]

EntryFrame ==
    UNCHANGED <<sessions, heap, clock, clock_seen, snapshot, ret, nops, turn_log, thr,
                driftVars, anomalyVars, callVars, shiftVars, causalVars, configVars>>

\* handle_chat_stream that feeds the tracker like handle_chat
HandleChatStreamRecording ==
    /\ chat.pc = "idle"
    /\ chat_env.requests < MaxRequests
    /\ \E sid \in SessionIds, text \in RequestTexts :
         /\ redact_input' = RequestPayload(sid, text)
         /\ redacted' = <<redact_payload(RequestPayload(sid, text))>>
         /\ chat' = [pc |-> "idle", session_id |-> sid, res |-> NoResponse,
                     backend |-> "returned", sink_failed |-> FALSE, outcome |-> Returned]
         /\ LET r == record_turn(sessions, heap, sid, 0, 0, SettingsMetadata, clock, clock)
            IN  sessions' = r.sessions /\ heap' = r.heap
    /\ chat_env' = [chat_env EXCEPT !.requests = @ + 1]
    /\ chat_entry' = Entry("stream")
    /\ UNCHANGED <<clock, clock_seen, snapshot, ret, nops, turn_log, thr,
                   driftVars, anomalyVars, callVars, shiftVars, causalVars, configVars>>

\* handle_chat lines 224-230: the request arrives and is redacted
HandleChatRequest ==
    /\ chat.pc = "idle"
    /\ chat_env.requests < MaxRequests
    /\ \E sid \in SessionIds, text \in RequestTexts :
         /\ redact_input' = RequestPayload(sid, text)
         /\ redacted' = <<redact_payload(RequestPayload(sid, text))>>
         /\ chat' = [pc |-> "generate", session_id |-> sid, res |-> NoResponse,
                     backend |-> "none", sink_failed |-> FALSE, outcome |-> NoOutcome]
    /\ chat_env' = [chat_env EXCEPT !.requests = @ + 1]
    /\ chat_entry' = Entry("chat")
    /\ EntryFrame

\* handle_chat_stream lines 245-252: the request is redacted and the events
\* of the backend are passed on, until the stream ends or fails
HandleChatStream ==
    /\ chat.pc = "idle"
    /\ chat_env.requests < MaxRequests
    /\ \E sid \in SessionIds, text \in RequestTexts, streamed \in BOOLEAN :
         /\ redact_input' = RequestPayload(sid, text)
         /\ redacted' = <<redact_payload(RequestPayload(sid, text))>>
         /\ chat' = [pc |-> "idle", session_id |-> sid, res |-> NoResponse,
                     backend |-> IF streamed THEN "returned" ELSE "raised",
                     sink_failed |-> FALSE,
                     outcome |-> IF streamed THEN Returned ELSE RaisedBy("backend", "Exception")]
    /\ chat_env' = [chat_env EXCEPT !.requests = @ + 1]
    /\ chat_entry' = Entry("stream")
    /\ EntryFrame

NextChatApi ==
    \/ ChatTick
    \/ HandleChatRequest
    \/ HandleChatStream
    \/ GenerateChat
    \/ PostRecordTurn
    \/ PostGauges
    \/ PostDrift
    \/ PostEvents
    \/ PostCases
    \/ ChatReturn

SpecChatApi == InitChat /\ [][NextChatApi]_vars

---------------------------------------------------------------------------
(* Properties of the two entry points *)

\* the record_turn and update_and_score calls made since the request arrived
TurnsSinceEntry == nops - chat_entry.nops
ScoresSinceEntry == Len(drift_calls) - chat_entry.drift_calls

C29_HandleChat ==
    chat_entry.kind = "chat" =>
        /\ redacted = <<redact_payload(redact_input)>>
        /\ redact_input = RequestPayload(chat.session_id,
                               redact_input.items[1].value.items[1].items[1].value.text)
        /\ TurnsSinceEntry \in {0, 1}
        /\ ScoresSinceEntry \in {0, 1}
        /\ ScoresSinceEntry <= TurnsSinceEntry
        /\ \A sid \in SessionIds \ {chat.session_id} : turn_log[sid] = chat_entry.turn_log[sid]
        /\ Len(turn_log[chat.session_id]) =
               Len(chat_entry.turn_log[chat.session_id]) + TurnsSinceEntry
        /\ (chat.pc = "idle" /\ chat.outcome = Returned) =>
               /\ TurnsSinceEntry = 1
               /\ ScoresSinceEntry = 1
               /\ turn_log[chat.session_id] =
                      Append(chat_entry.turn_log[chat.session_id],
                             <<chat.res.input_tokens, chat.res.output_tokens>>)
               /\ drift_calls[Len(drift_calls)].vertex = chat.res.vertex
               /\ drift_calls[Len(drift_calls)].minilm = chat.res.minilm

C29_Stream ==
    chat_entry.kind = "stream" =>
        /\ sessions = chat_entry.sessions
        /\ heap = chat_entry.heap
        /\ detector.vertex_history = chat_entry.detector.vertex_history
        /\ detector.minilm_history = chat_entry.detector.minilm_history
        /\ TurnsSinceEntry = 0
        /\ ScoresSinceEntry = 0

\* C29: only the non-streaming path feeds the analytics state: a successful
\* handle_chat makes exactly one record_turn call for the session id of the
\* request and exactly one update_and_score call, in that order and after
\* the request was redacted, and handle_chat_stream leaves the session
\* registry and both drift histories as they were.
C29_OnlyHandleChatFeeds == C29_HandleChat /\ C29_Stream

\* the second request, with an e-mail address in its text, has returned
C29_Witness ==
    /\ chat_entry.kind = "chat"
    /\ chat.pc = "idle"
    /\ chat.outcome = Returned
    /\ redacted[1] # redact_input
    /\ chat_entry.nops = 1
    /\ nops = 2
    /\ Len(drift_calls) = 2

---------------------------------------------------------------------------
(* A history whose oldest retained embedding is empty *)

EmptyOldest(history) == history # <<>> /\ history[1] = <<>>

\* the step is an update_and_score call
ScoreStep == Len(drift_calls') = Len(drift_calls) + 1

C30_Step ==
    ScoreStep =>
        /\ EmptyOldest(detector.vertex_history) =>
              (drift_result'.kind = "DriftResult" /\ drift_result'.vertex_drift_score = 0)
        /\ EmptyOldest(detector.minilm_history) =>
              (drift_result'.kind = "DriftResult" /\ drift_result'.minilm_drift_score = 0)

\* C30: while the oldest retained embedding of a source's history is empty,
\* update_and_score reports a drift of 0.0 for that source on every call,
\* whatever the other retained embeddings and the new embedding are; the
\* score can be non-zero only once that entry has left the window.
C30_EmptyOldestScoresZero == [][C30_Step]_vars

\* the calls that return do report 0.0 for such a source
C30_ReturnedScoresZero ==
    [][ (ScoreStep /\ drift_result'.kind = "DriftResult") =>
            /\ EmptyOldest(detector.vertex_history) => drift_result'.vertex_drift_score = 0
            /\ EmptyOldest(detector.minilm_history) => drift_result'.minilm_drift_score = 0 ]_vars

====
